---------------------------- MODULE Spec2Model ----------------------------
(***************************************************************************)
(* print-vault: the tracker file acquisition and storage pipeline.         *)
(*                                                                         *)
(*   inventory/services/storage_manager.py        StorageManager           *)
(*   inventory/services/file_download_service.py  FileDownloadService      *)
(*   inventory/serializers.py   TrackerCreateSerializer._download_tracker_files *)
(*   inventory/views.py         TrackerViewSet._download_tracker_files_for_manual, *)
(*                              TrackerViewSet._download_new_files         *)
(*   inventory/services/github_service.py         crawl_github_repository  *)
(*   inventory/management/commands/fix_tracker_files.py                    *)
(*                                                                         *)
(* Eight specifications share the definitions below.                       *)
(*   Spec          one acquisition: preflight, batch root, destination     *)
(*                 plan, download_files_batch (one descriptor per step),   *)
(*                 fold.                                                   *)
(*   SpecRetry     one call of download_with_retry, one attempt per step.  *)
(*   SpecFix       runs of the fix_tracker_files command.                  *)
(*   SpecDownload  download_file calls on one destination.                 *)
(*   SpecSanitize  one call of sanitize_filename.                          *)
(*   SpecCrawl     one call of crawl_github_repository.                    *)
(*   SpecCleanup   cleanup_tracker_files calls and tracker deletions.      *)
(*   SpecCrawlPair two calls of crawl_github_repository at once.           *)
(*                                                                         *)
(* Byte counts are in KiB (TLC's integers are 32 bit; MAX_FILE_SIZE is     *)
(* 5 GiB).  Strings the code searches or rewrites (URLs, exception texts)  *)
(* are sequences of tokens; a substring test is a test on the tokens.      *)
(***************************************************************************)
EXTENDS Integers, Sequences, FiniteSets, TLC

VARIABLES
    \* ---- one acquisition (Spec) ----
    variant,              \* which orchestrator runs: "create" | "manual" | "add"
    organize_by_category, \* StorageManager.organize_by_category
    tracker_files,        \* the TrackerFile rows handed to the orchestrator
    download_status,      \* TrackerFile.download_status as saved, per row
    download_error,       \* TrackerFile.download_error as saved, per row
    local_file,           \* TrackerFile.local_file as saved, per row
    tracker,              \* the Tracker row: storage_path, total_storage_used, files_downloaded
    available,            \* shutil.disk_usage(base_path).free
    dirs,                 \* directories that exist under the media root
    pc,                   \* position of the orchestrator
    escaped,              \* the exception that left the orchestrator, "" if none
    space_check,          \* what check_available_space did
    file_list,            \* argument built for download_files_batch
    index,                \* download_files_batch: descriptors processed so far
    results,              \* download_files_batch: its results dict
    ret,                  \* the dict the orchestrator returns
    batch_invoked,        \* download_files_batch was called
    xfer,                 \* per processed descriptor, how its download_with_retry ended
    \* ---- one download_with_retry call (SpecRetry) ----
    url,                  \* its url argument
    max_retries_arg,      \* its max_retries argument: << >> is None, <<n>> is n
    cfg_max_retries,      \* self.max_retries (TRACKER_STORAGE['MAX_RETRIES'])
    rs,                   \* the call's frame: attempt, last_error, outcome, effects
    \* ---- fix_tracker_files (SpecFix) ----
    dry_run,              \* options['dry_run'] of the run in progress
    fix_records,          \* the TrackerFile rows of the tracker, as saved
    disk_files,           \* size of the file at each path under MEDIA_ROOT, NoFile if none
    fix_before,           \* fix_records as the run in progress found them
    broken_files,         \* the rows the queryset gave, by id
    fix_pc,               \* position of handle: "idle" | "loop" | "done"
    fix_i,                \* rows of broken_files gone through
    fixed_count,          \* handle's fixed_count
    missing_count,        \* handle's missing_count
    runs,                 \* runs of the command ended so far
    \* ---- download_file calls on one destination (SpecDownload) ----
    dl_url,               \* the url argument of the last call
    dl_env,               \* what the world did to the last call
    dl_file,              \* the file at destination: NoFile or its size
    dl_out,               \* what the last call did
    dl_calls,             \* calls made so far
    \* ---- sanitize_filename calls (SpecSanitize) ----
    san_filename,         \* the filename argument of the last call
    san_max_length,       \* its max_length argument
    san_out,              \* what it returned
    san_called,           \* a call has been made
    \* ---- one crawl_github_repository call (SpecCrawl) ----
    github_url,           \* its github_url argument, as segments
    force_refresh,        \* its force_refresh argument
    upstream,             \* the repository's tree at GitHub
    default_branch,       \* the repository's default branch at GitHub
    cache,                \* django cache: the unexpired manifests, by cache key
    crawl_pc,             \* position of the call
    parsed,               \* parse_github_url's result
    crawl_branch,         \* the local 'branch'
    http_requests,        \* the requests sent to the GitHub API, in order
    crawl_lists,          \* what filter_printable_files returned
    crawl_ret,            \* the manifest returned
    crawl_error,          \* the exception raised, "" if none
    \* ---- cleanup_tracker_files and destroy (SpecCleanup) ----
    cleanup_on_delete,    \* TRACKER_STORAGE['CLEANUP_ON_DELETE']
    st_trackers,          \* storage_type of each Tracker row there is, by id
    st_disk,              \* size of each file under base_path
    st_dirs,              \* the tracker directories under base_path that exist
    st_before,            \* st_disk and st_dirs before the last operation
    st_ops,               \* the operations made, in order, with what cleanup returned
    \* ---- two crawl_github_repository calls at once (SpecCrawlPair) ----
    pair_url,             \* github_url of each of the two calls
    pair_force,           \* force_refresh of each call
    pair_upstream,        \* the repository's tree, the same for both calls
    pair_cache0,          \* the cache when the calls start
    pair_cache,           \* the cache the calls share
    pair_pc,              \* where each call is
    pair_branch,          \* each call's local 'branch'
    pair_lists,           \* what filter_printable_files returned to each call
    pair_ret,             \* the manifest each call returned
    pair_error            \* the exception each call raised, "" if none

acqVars == <<variant, organize_by_category, tracker_files, download_status,
             download_error, local_file, tracker, available, dirs, pc, escaped, space_check,
             file_list, index, results, ret, batch_invoked, xfer>>
retryVars == <<url, max_retries_arg, cfg_max_retries, rs>>
fixVars == <<dry_run, fix_records, disk_files, fix_before, broken_files, fix_pc,
             fix_i, fixed_count, missing_count, runs>>
\* the variables of the smaller specifications
dlVars == <<dl_url, dl_env, dl_file, dl_out, dl_calls>>
sanVars == <<san_filename, san_max_length, san_out, san_called>>
crawlVars == <<github_url, force_refresh, upstream, default_branch, cache, crawl_pc,
               parsed, crawl_branch, http_requests, crawl_lists, crawl_ret, crawl_error>>
cleanupVars == <<cleanup_on_delete, st_trackers, st_disk, st_dirs, st_before, st_ops>>
pairVars == <<pair_url, pair_force, pair_upstream, pair_cache0, pair_cache, pair_pc, pair_branch, pair_lists, pair_ret, pair_error>>
restVars == <<fixVars, dlVars, sanVars, crawlVars, cleanupVars, pairVars>>
\* everything an acquisition leaves alone
notAcq == <<retryVars, restVars>>
\* everything fix_tracker_files leaves alone
notFix == <<acqVars, retryVars, dlVars, sanVars, crawlVars, cleanupVars, pairVars>>
\* everything a download_file call on its own leaves alone
notDl == <<acqVars, retryVars, fixVars, sanVars, crawlVars, cleanupVars, pairVars>>
\* everything a sanitize_filename call on its own leaves alone
notSan == <<acqVars, retryVars, fixVars, dlVars, crawlVars, cleanupVars, pairVars>>
\* everything a crawl leaves alone
notCrawl == <<acqVars, retryVars, fixVars, dlVars, sanVars, cleanupVars, pairVars>>
\* everything cleanup_tracker_files and destroy leave alone
notCleanup == <<acqVars, retryVars, fixVars, dlVars, sanVars, crawlVars, pairVars>>
\* everything the two calls leave alone
notCrawlPair == <<acqVars, retryVars, fixVars, dlVars, sanVars, crawlVars, cleanupVars>>
vars == <<acqVars, retryVars, restVars>>

---------------------------------------------------------------------------
(* Configuration: backend/settings.py TRACKER_STORAGE, sizes in KiB.       *)

MAX_FILE_SIZE == 5 * 1024 * 1024
MIN_FREE_SPACE == 5 * 1024 * 1024
MAX_TOTAL_SIZE == 100 * 1024 * 1024
MAX_RETRIES == 3
RETRY_DELAY == 2
DOWNLOAD_TIMEOUT == 600
\* "Allow 1KB difference": abs(actual_size - total_size) > 1024
SIZE_TOLERANCE == 1

allowed_domains ==
    {"github.com", "raw.githubusercontent.com", "thingiverse.com",
     "thingiverse-production-new.s3.amazonaws.com", "printables.com",
     "media.printables.com"}

---------------------------------------------------------------------------
(* Bounds of the model.                                                    *)

\* most descriptors in one acquisition
MaxFiles == 3
\* largest max_retries argument and largest configured MAX_RETRIES tried
MaxRetriesTried == 3

---------------------------------------------------------------------------
(* Strings as token sequences.  A URL is <<netloc, segment, ...>>; the     *)
(* empty URL is << >>.                                                     *)

RECURSIVE Pow(_, _)
Pow(b, e) == IF e = 0 THEN 1 ELSE b * Pow(b, e - 1)

RECURSIVE SumSeq(_)
SumSeq(s) == IF s = << >> THEN 0 ELSE Head(s) + SumSeq(Tail(s))

\* 'github.com' in <token>
HasGithub(tok) == tok \in {"github.com", "gist.github.com"}
\* 'raw.githubusercontent.com' in <token>
HasRaw(tok) == tok \in {"raw.githubusercontent.com", "gist.raw.githubusercontent.com"}
\* '404' in <token>
Has404(tok) == tok \in {"404", "part404.stl", "IncompleteRead(404 bytes read)"}
\* <token>.replace('github.com', 'raw.githubusercontent.com')
ReplaceGithub(tok) ==
    CASE tok = "github.com" -> "raw.githubusercontent.com"
      [] tok = "gist.github.com" -> "gist.raw.githubusercontent.com"
      [] OTHER -> tok

ContainsGithub(s) == \E i \in 1..Len(s) : HasGithub(s[i])
ContainsRaw(s) == \E i \in 1..Len(s) : HasRaw(s[i])
\* '404' in str(e)
Contains404(s) == \E i \in 1..Len(s) : Has404(s[i])

\* <url>.replace('/blob/', '/'): a token "blob" with a slash on both sides
\* goes (the host too: "//blob/" holds "/blob/"); the match consumes the
\* slash after it, so the token right after a removed one stays even if it
\* is "blob" too.
RECURSIVE DropBlob(_, _, _)
DropBlob(s, i, prevDropped) ==
    IF i > Len(s) THEN << >>
    ELSE IF s[i] = "blob" /\ i < Len(s) /\ ~prevDropped
         THEN DropBlob(s, i + 1, TRUE)
         ELSE <<s[i]>> \o DropBlob(s, i + 1, FALSE)

\* download_files_batch: "Convert GitHub blob URLs to raw URLs if needed"
RawUrl(u) ==
    IF ContainsGithub(u) /\ ~ContainsRaw(u)
    THEN DropBlob([i \in 1..Len(u) |-> ReplaceGithub(u[i])], 1, FALSE)
    ELSE u

\* urlparse(url).netloc
Netloc(u) == IF u = << >> THEN "" ELSE u[1]

---------------------------------------------------------------------------
(* FileDownloadService.validate_url and download_file.                     *)

\* validate_url without the allow-list test
validate_url_any_host(u) ==
    IF Netloc(u) = "" THEN <<"Invalid URL:">> \o u ELSE << >>

\* << >> when the URL passes, else the text of the ValueError
validate_url(u) ==
    IF Netloc(u) = "" THEN <<"Invalid URL:">> \o u
    ELSE IF Netloc(u) \notin allowed_domains
         THEN <<"Downloads from", Netloc(u), "are not allowed">>
         ELSE << >>

\* What the world does to one attempt.
\*   mkdir           os.makedirs(dirname(destination)) succeeds
\*   net             requests.get: "timeout" | "connection_error" | "response"
\*   status          the response's status code
\*   content_length  the content-length header, 0 when absent
\*   body            KiB that reach the disk before the stream ends
\*   stream          "ok" | "net_error" (the stream breaks) |
\*                   "disk_error" (a write fails) | "open_error" (open fails)
\*   remove_ok       download_with_retry's os.remove of a partial file succeeds
\*   text            str(e) of the exception a broken stream raises
EnvBase ==
    [mkdir |-> TRUE, net |-> "response", status |-> "200", content_length |-> 0,
     body |-> 0, stream |-> "ok", remove_ok |-> TRUE, text |-> "Connection broken"]

NoFile == -1

\* What one download_file call did: the exception it raised ("none": it
\* returned), str(e), result['bytes_downloaded'], whether requests.get was
\* called, whether the destination directory was made, the destination file
\* afterwards (NoFile or its size), and what happened (cause).
Outcome(exc, msg, bytes, http, mkdirs, file, cause) ==
    [exc |-> exc, msg |-> msg, bytes_downloaded |-> bytes, http |-> http,
     mkdirs |-> mkdirs, file |-> file, cause |-> cause]

Abs(n) == IF n < 0 THEN -n ELSE n

\* Incomplete with the second test at one half instead of 95%
IncompleteBelowHalf(actual_size, total_size) ==
    /\ total_size > 0
    /\ Abs(actual_size - total_size) > SIZE_TOLERANCE
    /\ 100 * actual_size < 50 * total_size

\* "Verify file size": total_size > 0 and abs(actual_size - total_size) > 1024,
\* and inside it actual_size < total_size * 0.95
Incomplete(actual_size, total_size) ==
    /\ total_size > 0
    /\ Abs(actual_size - total_size) > SIZE_TOLERANCE
    /\ 100 * actual_size < 95 * total_size

\* except OSError: "if os.path.exists(destination): os.remove(destination)"
download_file(u, file, timeout, env) ==
    IF validate_url(u) # << >>
    THEN Outcome("ValueError", validate_url(u), 0, 0, FALSE, file, "invalid_host")
    ELSE IF ~env.mkdir
    THEN Outcome("OSError", <<"makedirs failed">>, 0, 0, FALSE, file, "mkdir")
    ELSE IF env.net = "timeout"
    THEN Outcome("DownloadTimeoutError", <<"Download timed out after", ToString(timeout)>>,
                 0, 1, TRUE, file, "timeout")
    ELSE IF env.net = "connection_error"
    THEN Outcome("DownloadError", <<"Download failed:", "Max retries exceeded with url:">> \o u,
                 0, 1, TRUE, file, "connection_error")
    ELSE IF env.status # "200"
    THEN Outcome("DownloadError", <<"HTTP error", env.status, "for url:">> \o u,
                 0, 1, TRUE, file, env.status)
    ELSE IF env.content_length > MAX_FILE_SIZE
    THEN Outcome("FileTooLargeError", <<"File size exceeds maximum">>, 0, 1, TRUE, file,
                 "too_large")
    ELSE IF env.stream \in {"open_error", "disk_error"}
    THEN Outcome("DownloadError", <<"File write error:">>, 0, 1, TRUE, NoFile, "write_error")
    ELSE IF env.stream = "net_error"
    THEN Outcome("DownloadError", <<"Download failed:", env.text>>,
                 0, 1, TRUE, env.body, "stream_broken")
    ELSE IF Incomplete(env.body, env.content_length)
    THEN Outcome("DownloadError", <<"Incomplete download.">>, 0, 1, TRUE, NoFile, "incomplete")
    ELSE Outcome("none", << >>, env.body, 1, TRUE, env.body, "ok")

---------------------------------------------------------------------------
(* FileDownloadService.download_with_retry.                                *)

\* max_retries = max_retries or self.max_retries
EffectiveRetries(arg, cfg) == IF arg = << >> \/ arg[1] = 0 THEN cfg ELSE arg[1]

\* Settle with the loop running one pass too many
SettleOneMore(r) ==
    IF r.state = "running" /\ r.attempt > r.max_retries
    THEN [r EXCEPT !.state = "raised", !.exc = "DownloadError",
                   !.msg = <<"Download failed after", ToString(r.max_retries),
                             "attempts. Last error:">> \o r.last_error]
    ELSE r

\* the loop is over: "raise DownloadError(Download failed after ... attempts)"
Settle(r) ==
    IF r.state = "running" /\ r.attempt >= r.max_retries
    THEN [r EXCEPT !.state = "raised", !.exc = "DownloadError",
                   !.msg = <<"Download failed after", ToString(r.max_retries),
                             "attempts. Last error:">> \o r.last_error]
    ELSE r

\* the frame on entry; file is what lies at destination
RetryInit(arg, cfg, file) ==
    Settle([state |-> "running", attempt |-> 0,
            max_retries |-> EffectiveRetries(arg, cfg),
            last_error |-> <<"None">>, exc |-> "none", msg |-> << >>,
            bytes_downloaded |-> 0, attempts |-> 0,
            calls |-> 0, http_calls |-> 0, mkdirs |-> FALSE, file |-> file,
            sleeps |-> << >>, timeouts |-> << >>, causes |-> << >>])

\* except (DownloadTimeoutError, DownloadError): the three exception classes
\* derive from Exception directly, so a FileTooLargeError is not caught here
Caught(exc) == exc \in {"DownloadTimeoutError", "DownloadError"}

\* NoRetry with the 404 test gone: every caught error is retried
NoRetryNever(o) == FALSE

\* "Don't retry on certain errors"
NoRetry(o) == o.exc = "DownloadError" /\ Contains404(o.msg)

\* Delay with the exponent one higher
DelayOfNext(attempt) == Pow(RETRY_DELAY, attempt + 1)

\* "delay = self.retry_delay ** attempt", attempt being the pass that failed
Delay(attempt) == Pow(RETRY_DELAY, attempt)

\* one pass of "for attempt in range(max_retries)"
RetryStep(r, u, env) ==
    LET timeout == DOWNLOAD_TIMEOUT * (r.attempt + 1)
        o == download_file(u, r.file, timeout, env)
        seen == [r EXCEPT !.calls = @ + 1, !.http_calls = @ + o.http,
                          !.mkdirs = @ \/ o.mkdirs, !.file = o.file,
                          !.timeouts = Append(@, timeout),
                          !.causes = Append(@, o.cause)]
    IN  IF o.exc = "none"
        THEN [seen EXCEPT !.state = "returned", !.attempts = r.attempt + 1,
                          !.bytes_downloaded = o.bytes_downloaded]
        ELSE IF ~Caught(o.exc) \/ NoRetry(o)
        THEN [seen EXCEPT !.state = "raised", !.exc = o.exc, !.msg = o.msg,
                          !.last_error = IF Caught(o.exc) THEN o.msg ELSE @]
        ELSE Settle([seen EXCEPT
                 !.last_error = o.msg,
                 !.file = IF o.file # NoFile /\ env.remove_ok THEN NoFile ELSE o.file,
                 !.sleeps = IF r.attempt < r.max_retries - 1
                            THEN Append(@, Delay(r.attempt)) ELSE @,
                 !.attempt = @ + 1])

---------------------------------------------------------------------------
(* StorageManager.check_available_space.                                   *)

\* int(required_bytes * 1.1)
RequiredWithBuffer(required_bytes) == required_bytes + required_bytes \div 10

\* raised: InsufficientStorageError left the call; result: the dict built
\* before the raise (returned when nothing is raised), key by key
check_available_space(required_bytes, free) ==
    LET required_with_buffer == RequiredWithBuffer(required_bytes)
        sufficient == free >= required_with_buffer
        result == [sufficient |-> sufficient, available |-> free,
                   required |-> required_bytes,
                   required_with_buffer |-> required_with_buffer,
                   after_download |-> free - required_with_buffer,
                   min_free_space |-> MIN_FREE_SPACE]
        floored == IF result.after_download < MIN_FREE_SPACE
                   THEN [k \in DOMAIN result \cup {"shortage"} |->
                           IF k = "sufficient" THEN FALSE
                           ELSE IF k = "shortage"
                                THEN MIN_FREE_SPACE - result.after_download
                                ELSE result[k]]
                   ELSE result
    IN  [raised |-> ~sufficient,
         msg |-> <<"Insufficient disk space. Required:", ToString(required_with_buffer),
                   "Available:", ToString(free)>>,
         result |-> floored]

---------------------------------------------------------------------------
(* StorageManager.sanitize_filename and the directories of a tracker.      *)
(* A name is a sequence of characters, a path a sequence of names.         *)

invalid_chars == {"<", ">", ":", "\"", "/", "\\", "|", "?", "*"}

\* strip that takes nothing off
StripNothing(s) == s

\* filename.strip('. ')
RECURSIVE Strip(_)
Strip(s) ==
    IF s = << >> THEN s
    ELSE IF Head(s) \in {".", " "} THEN Strip(Tail(s))
    ELSE IF s[Len(s)] \in {".", " "} THEN Strip(SubSeq(s, 1, Len(s) - 1))
    ELSE s

\* os.path.splitext on one path component: the extension starts at the last
\* dot, unless only dots come before it
SplitExt(s) ==
    LET dots == {i \in 1..Len(s) : s[i] = "."}
        d == CHOOSE i \in dots : \A j \in dots : j <= i
    IN  IF dots # {} /\ \E j \in 1..(d - 1) : s[j] # "."
        THEN [name |-> SubSeq(s, 1, d - 1), ext |-> SubSeq(s, d, Len(s))]
        ELSE [name |-> s, ext |-> << >>]

\* s[:m], m negative included
Slice(s, m) ==
    IF m >= 0 THEN SubSeq(s, 1, IF m < Len(s) THEN m ELSE Len(s))
    ELSE SubSeq(s, 1, Len(s) + m)

sanitize_filename(filename, max_length) ==
    LET replaced == [i \in 1..Len(filename) |->
                        IF filename[i] \in invalid_chars THEN "_" ELSE filename[i]]
        stripped == Strip(replaced)
        parts == SplitExt(stripped)
        cut == IF Len(stripped) > max_length
               THEN Slice(parts.name, max_length - Len(parts.ext)) \o parts.ext
               ELSE stripped
    IN  IF cut = << >> THEN <<"u", "n", "n", "a", "m", "e", "d", "_", "f", "i", "l", "e">>
        ELSE cut

\* the default of sanitize_filename's max_length
DefaultMaxLength == 255

\* self.base_path: MEDIA_ROOT/trackers
base_path == <<<<"t", "r", "a", "c", "k", "e", "r", "s">>>>

\* get_tracker_storage_path: base_path/<tracker id>/files; the model follows
\* one tracker, number 1
tracker_path == base_path \o <<<<"1">>, <<"f", "i", "l", "e", "s">>>>

\* the same path as text, for messages
TrackerPathText == "trackers/1/files"

---------------------------------------------------------------------------
(* Inputs.                                                                 *)

\* source URLs a descriptor may carry
Urls ==
    {<<"github.com", "u", "blob", "main", "a.stl">>,
     <<"github.com", "u", "blob", "main", "part404.stl">>,
     <<"raw.githubusercontent.com", "u", "main", "a.stl">>,
     <<"media.printables.com", "a.stl">>,
     <<"gist.github.com", "u", "a.stl">>,
     <<"evil.example", "a.stl">>,
     <<"evil.example", "github.com", "blob", "a.stl">>,
     <<"blob", "github.com", "u", "a.stl">>,
     << >>}

\* what download_with_retry is handed: a URL as given, or as
\* download_files_batch rewrote it
RetryUrls == Urls \cup {RawUrl(u) : u \in Urls}

ContentLengths == {0, 100, MAX_FILE_SIZE + 1}
BodySizes == {3, 90, 100}
\* what requests says of a stream that broke: the bytes read are in the text
StreamTexts == {"Connection broken", "IncompleteRead(404 bytes read)"}

Envs ==
    {[EnvBase EXCEPT !.mkdir = FALSE]}
    \cup {[EnvBase EXCEPT !.net = n] : n \in {"timeout", "connection_error"}}
    \cup {[EnvBase EXCEPT !.status = c] : c \in {"403", "404", "500"}}
    \cup {[EnvBase EXCEPT !.content_length = c, !.body = b, !.stream = st] :
              c \in ContentLengths, b \in BodySizes,
              st \in {"ok", "disk_error", "open_error"}}
    \cup {[EnvBase EXCEPT !.content_length = c, !.body = b, !.stream = "net_error",
                           !.remove_ok = ok] :
              c \in ContentLengths, b \in BodySizes, ok \in BOOLEAN}
    \cup {[EnvBase EXCEPT !.body = b, !.stream = "net_error", !.text = t] :
              b \in BodySizes, t \in StreamTexts}

----------------------------------------------------------------------------
(* inventory/services/github_service.py.  Text the code cuts or compares   *)
(* character by character (paths, branches) is a sequence of characters;   *)
(* file sizes are in bytes.                                                *)

FILE_SIZE_WARN_BYTES == 10 * 1024 * 1024
FILE_SIZE_BLOCK_BYTES == 100 * 1024 * 1024

PRINTABLE_EXTENSIONS ==
    {<<".", "3", "m", "f">>, <<".", "s", "t", "l">>, <<".", "o", "l", "t", "p">>,
     <<".", "s", "t", "p">>, <<".", "s", "t", "e", "p">>, <<".", "s", "v", "g">>,
     <<".", "a", "m", "f">>, <<".", "o", "b", "j">>}

\* the characters of the model in code point order
CharOrder == <<" ", ".", "/", "2", "3", "L", "S", "T", "_", "a", "b", "c", "d", "e",
               "f", "g", "i", "j", "l", "m", "n", "o", "p", "r", "s", "t", "v">>

Rank(c) == CHOOSE i \in 1..Len(CharOrder) : CharOrder[i] = c

\* a < b for str
RECURSIVE StrLess(_, _)
StrLess(a, b) ==
    IF b = << >> THEN FALSE
    ELSE IF a = << >> THEN TRUE
    ELSE IF Head(a) = Head(b) THEN StrLess(Tail(a), Tail(b))
    ELSE Rank(Head(a)) < Rank(Head(b))

\* str.lower()
LowerChar(c) == IF c = "S" THEN "s" ELSE IF c = "T" THEN "t" ELSE IF c = "L" THEN "l" ELSE c
Lower(str) == [i \in 1..Len(str) |-> LowerChar(str[i])]

\* str.startswith(prefix)
StartsWith(str, prefix) ==
    Len(prefix) <= Len(str) /\ SubSeq(str, 1, Len(prefix)) = prefix

\* str.lstrip('/'), str.strip('/')
RECURSIVE LStripSlash(_)
LStripSlash(str) ==
    IF str # << >> /\ Head(str) = "/" THEN LStripSlash(Tail(str)) ELSE str

RECURSIVE StripSlash(_)
StripSlash(str) ==
    IF str = << >> THEN str
    ELSE IF Head(str) = "/" THEN StripSlash(Tail(str))
    ELSE IF str[Len(str)] = "/" THEN StripSlash(SubSeq(str, 1, Len(str) - 1))
    ELSE str

\* str.split(sep): the pieces between the separators
RECURSIVE Split(_, _)
Split(str, sep) ==
    IF \A i \in 1..Len(str) : str[i] # sep THEN <<str>>
    ELSE LET k == CHOOSE i \in 1..Len(str) :
                      str[i] = sep /\ \A j \in 1..(i - 1) : str[j] # sep
         IN  <<SubSeq(str, 1, k - 1)>> \o Split(SubSeq(str, k + 1, Len(str)), sep)

\* '/'.join(parts)
RECURSIVE JoinSlash(_)
JoinSlash(parts) ==
    IF parts = << >> THEN << >>
    ELSE IF Len(parts) = 1 THEN parts[1]
    ELSE parts[1] \o <<"/">> \o JoinSlash(Tail(parts))

\* url.rstrip('/') on the segments of a URL: empty segments at the end go
RECURSIVE RStripSegments(_)
RStripSegments(segs) ==
    IF segs # << >> /\ segs[Len(segs)] = << >>
    THEN RStripSegments(SubSeq(segs, 1, Len(segs) - 1))
    ELSE segs

GithubHost == <<"g", "i", "t", "h", "u", "b", ".", "c", "o", "m">>
TreeWord == <<"t", "r", "e", "e">>
BlobWord == <<"b", "l", "o", "b">>

\* parse_github_url.  A URL is the sequence of its segments after the scheme:
\* host, owner, repo, ...; an empty last segment is a trailing slash.  The
\* URLs of the model carry no percent escape, on which unquote changes nothing.
\* branch << >> is None.
parse_github_url(link) ==
    LET segs == RStripSegments(link)
        n == Len(segs)
        named == n >= 3 /\ segs[1] = GithubHost /\ segs[2] # << >> /\ segs[3] # << >>
    IN  IF named /\ n >= 5 /\ segs[4] = BlobWord
        THEN [error |-> "InvalidURLError"]
        ELSE IF named /\ n >= 5 /\ segs[4] = TreeWord /\ segs[5] # << >>
        THEN [error |-> "", owner |-> segs[2], repo |-> segs[3], branch |-> segs[5],
              path |-> JoinSlash(SubSeq(segs, 6, n))]
        ELSE IF named /\ n = 3
        THEN [error |-> "", owner |-> segs[2], repo |-> segs[3], branch |-> << >>,
              path |-> << >>]
        ELSE [error |-> "InvalidURLError"]

get_cache_key(owner, repo, branch, path) ==
    <<"github_tree", Lower(owner), Lower(repo), Lower(branch),
      IF path # << >> THEN Lower(StripSlash(path)) ELSE << >>>>

\* file_ext = '.' + path.lower().split('.')[-1] if '.' in path else ''
FileExt(path) ==
    IF \E i \in 1..Len(path) : path[i] = "."
    THEN LET parts == Split(Lower(path), ".") IN <<".">> \o parts[Len(parts)]
    ELSE << >>

\* the two tests of filter_printable_files that end in "continue";
\* base is its base_path
Kept(file, base) ==
    /\ ~(base # << >> /\ ~StartsWith(file.path, StripSlash(base)))
    /\ FileExt(file.path) \in PRINTABLE_EXTENSIONS

\* SizeTier with the two bounds taken exclusive
SizeTierExclusive(size) ==
    IF size > FILE_SIZE_BLOCK_BYTES THEN "blocked"
    ELSE IF size > FILE_SIZE_WARN_BYTES THEN "large"
    ELSE "normal"

\* "Categorize by size"
SizeTier(size) ==
    IF size >= FILE_SIZE_BLOCK_BYTES THEN "blocked"
    ELSE IF size >= FILE_SIZE_WARN_BYTES THEN "large"
    ELSE "normal"

filter_printable_files(files, base) ==
    LET into(tier) == SelectSeq(files, LAMBDA file :
                          Kept(file, base) /\ SizeTier(file.size) = tier)
    IN  [normal_files |-> into("normal"), large_files |-> into("large"),
         blocked_files |-> into("blocked")]

\* one file of build_file_tree: its directory_path and its file_info
FileInfo(file, owner, repo, branch, base) ==
    LET full_path == file.path
        base_path_clean == StripSlash(base)
        relative_path ==
            IF base # << >> /\ StartsWith(full_path, base_path_clean)
            THEN LStripSlash(SubSeq(full_path, Len(base_path_clean) + 1, Len(full_path)))
            ELSE full_path
        parts == Split(relative_path, "/")
    IN  [directory_path |-> JoinSlash(SubSeq(parts, 1, Len(parts) - 1)),
         filename |-> parts[Len(parts)],
         github_url |-> <<"raw.githubusercontent.com", owner, repo, branch, full_path>>,
         file_size |-> file.size,
         is_large |-> file.size >= FILE_SIZE_WARN_BYTES,
         is_blocked |-> file.size >= FILE_SIZE_BLOCK_BYTES]

\* sorted(seq, key=lambda x: x['filename']): stable
RECURSIVE SortedByFilename(_)
SortedByFilename(seq) ==
    IF seq = << >> THEN << >>
    ELSE LET rest == SortedByFilename(SubSeq(seq, 1, Len(seq) - 1))
             x == seq[Len(seq)]
             k == Cardinality({i \in 1..Len(rest) :
                                  ~StrLess(x.filename, rest[i].filename)})
         IN  SubSeq(rest, 1, k) \o <<x>> \o SubSeq(rest, k + 1, Len(rest))

\* sorted(tree.items()): the keys of a dict, which differ, in order
RECURSIVE SortedKeys(_)
SortedKeys(S) ==
    IF S = {} THEN << >>
    ELSE LET least == CHOOSE x \in S : \A y \in S \ {x} : StrLess(x, y)
         IN  <<least>> \o SortedKeys(S \ {least})

\* build_file_tree, as crawl_github_repository lists it: one entry per
\* directory, directories and the files of each in sorted order
build_file_tree(files, owner, repo, branch, base) ==
    LET infos == [i \in 1..Len(files) |->
                     FileInfo(files[i], owner, repo, branch, base)]
        dirsFound == {infos[i].directory_path : i \in 1..Len(infos)}
        inDir(d) == SelectSeq(infos, LAMBDA x : x.directory_path = d)
        info(x) == [f \in DOMAIN x \ {"directory_path"} |-> x[f]]
        entry(d) ==
            [directory_path |-> d,
             files |-> SortedByFilename([i \in 1..Len(inDir(d)) |-> info(inDir(d)[i])])]
        sortedDirs == SortedKeys(dirsFound)
    IN  [i \in 1..Len(sortedDirs) |-> entry(sortedDirs[i])]

\* "Count file types"
FileTypes(all_printable) ==
    [ext \in {FileExt(all_printable[i].path) : i \in 1..Len(all_printable)} \ {<< >>} |->
        Cardinality({i \in 1..Len(all_printable) : FileExt(all_printable[i].path) = ext})]

\* "Build warnings list": the counts the two messages carry
Warnings(lists) ==
    (IF lists.large_files # << >>
     THEN <<<<ToString(Len(lists.large_files)), "files are larger than 10 MB">>>>
     ELSE << >>)
    \o (IF lists.blocked_files # << >>
        THEN <<<<ToString(Len(lists.blocked_files)), "files blocked (>100 MB)">>>>
        ELSE << >>)

\* the result crawl_github_repository builds from the three lists
Manifest(lists, owner, repo, branch, path) ==
    LET all_printable == lists.normal_files \o lists.large_files \o lists.blocked_files
    IN  [success |-> TRUE,
         repo_info |-> [owner |-> owner, repo |-> repo, branch |-> branch, path |-> path],
         file_tree |-> build_file_tree(all_printable, owner, repo, branch, path),
         stats |-> [total_files |-> Len(all_printable),
                    normal_files |-> Len(lists.normal_files),
                    large_files |-> Len(lists.large_files),
                    blocked_files |-> Len(lists.blocked_files),
                    total_size |-> SumSeq([i \in 1..Len(all_printable) |->
                                              all_printable[i].size]),
                    file_types |-> FileTypes(all_printable)],
         warnings |-> Warnings(lists),
         cached |-> FALSE]

---------------------------------------------------------------------------
(* The specifications share their variables: each one starts the others'   *)
(* variables at rest and never moves them.                                 *)

FixIdle ==
    /\ dry_run = FALSE
    /\ fix_records = << >>
    /\ disk_files = << >>
    /\ fix_before = << >>
    /\ broken_files = << >>
    /\ fix_pc = "idle"
    /\ fix_i = 0
    /\ fixed_count = 0
    /\ missing_count = 0
    /\ runs = 0

DlIdle ==
    /\ dl_url = << >>
    /\ dl_env = EnvBase
    /\ dl_file = NoFile
    /\ dl_out = Outcome("none", << >>, 0, 0, FALSE, NoFile, "idle")
    /\ dl_calls = 0

SanIdle ==
    /\ san_filename = << >>
    /\ san_max_length = DefaultMaxLength
    /\ san_out = << >>
    /\ san_called = FALSE

CrawlIdle ==
    /\ github_url = << >>
    /\ force_refresh = FALSE
    /\ upstream = << >>
    /\ default_branch = << >>
    /\ cache = << >>
    /\ crawl_pc = "idle"
    /\ parsed = [error |-> ""]
    /\ crawl_branch = << >>
    /\ http_requests = << >>
    /\ crawl_lists = [normal_files |-> << >>, large_files |-> << >>,
                      blocked_files |-> << >>]
    /\ crawl_ret = [success |-> FALSE]
    /\ crawl_error = ""

CleanupIdle ==
    /\ cleanup_on_delete = TRUE
    /\ st_trackers = << >>
    /\ st_disk = << >>
    /\ st_dirs = {}
    /\ st_before = [disk |-> << >>, there |-> {}]
    /\ st_ops = << >>

CrawlPairIdle ==
    /\ pair_url = << >>
    /\ pair_force = << >>
    /\ pair_upstream = << >>
    /\ pair_cache0 = << >>
    /\ pair_cache = << >>
    /\ pair_pc = << >>
    /\ pair_branch = << >>
    /\ pair_lists = << >>
    /\ pair_ret = << >>
    /\ pair_error = << >>

RestIdle == FixIdle /\ DlIdle /\ SanIdle /\ CrawlIdle /\ CleanupIdle /\ CrawlPairIdle

---------------------------------------------------------------------------
(* SpecRetry: one call of download_with_retry.                             *)

AcqIdle ==
    /\ variant = "none"
    /\ organize_by_category = TRUE
    /\ tracker_files = << >>
    /\ download_status = << >>
    /\ download_error = << >>
    /\ local_file = << >>
    /\ tracker = [storage_path |-> << >>, storage_type |-> "local",
                  total_storage_used |-> 0, files_downloaded |-> FALSE,
                  others_completed |-> TRUE]
    /\ available = 0
    /\ dirs = {}
    /\ pc = "idle"
    /\ escaped = ""
    /\ space_check = [kind |-> "none"]
    /\ file_list = << >>
    /\ index = 0
    /\ results = [successful |-> << >>, failed |-> << >>, total_bytes |-> 0]
    /\ ret = [kind |-> "none"]
    /\ batch_invoked = FALSE
    /\ xfer = << >>

InitRetry ==
    /\ AcqIdle
    /\ RestIdle
    /\ url \in RetryUrls
    /\ max_retries_arg \in {<< >>} \cup {<<n>> : n \in 0..MaxRetriesTried}
    /\ cfg_max_retries \in 0..MaxRetriesTried
    /\ rs = RetryInit(max_retries_arg, cfg_max_retries, NoFile)

\* the next pass of the loop, against whatever the world does
Attempt ==
    /\ rs.state = "running"
    /\ \E env \in Envs : rs' = RetryStep(rs, url, env)
    /\ UNCHANGED <<acqVars, url, max_retries_arg, cfg_max_retries, restVars>>

NextRetry == Attempt

SpecRetry == InitRetry /\ [][NextRetry]_vars

---------------------------------------------------------------------------
(* Spec: one acquisition.  The three orchestrators run the same sequence   *)
(* and differ in their except clauses, in the text they build and in the   *)
(* tracker totals: "create" is _download_tracker_files, "manual" is        *)
(* _download_tracker_files_for_manual, "add" is _download_new_files.       *)

Filenames == <<<<"a", ".", "s">>, <<"b", ".", "s">>, <<"c", ".", "s">>,
               <<"d", ".", "s">>, <<"e", ".", "s">>>>

\* what a descriptor may be: category, source URL, declared size
Profiles ==
    <<[directory_path |-> <<"B">>, file_size |-> 1000,
       github_url |-> <<"github.com", "u", "blob", "main", "a.stl">>],
      [directory_path |-> << >>, file_size |-> 0,
       github_url |-> <<"evil.example", "a.stl">>],
      [directory_path |-> <<"M", "/", "x">>, file_size |-> MAX_TOTAL_SIZE + 1,
       github_url |-> <<"raw.githubusercontent.com", "u", "main", "part404.stl">>]>>

\* directories a file of the same name may lie in as well: unique_together
\* is on (tracker, directory_path, filename), so a name may come back under
\* another directory_path
SiblingDirs == {<<"M", "_", "x">>,
                <<"u", "n", "c", "a", "t", "e", "g", "o", "r", "i", "z", "e", "d">>}

Row(i, p) ==
    [id |-> i, filename |-> Filenames[i], directory_path |-> p.directory_path,
     github_url |-> p.github_url, file_size |-> p.file_size]

N == Len(tracker_files)

\* the rows behind tracker_files.  add_files appends the row again when the
\* request lists a (category, name) pair twice, so two entries of
\* tracker_files may be one row
RowIds == {tracker_files[i].id : i \in 1..N}

\* total_size = sum(f.file_size for f in tracker_files if f.file_size)
total_size == SumSeq([i \in 1..N |-> tracker_files[i].file_size])

\* free space at and around the two thresholds of the preflight
AvailableChoices(required) ==
    LET rwb == RequiredWithBuffer(required)
    IN  {rwb + MIN_FREE_SPACE, rwb + MIN_FREE_SPACE - 1, rwb}
        \cup (IF rwb > 0 THEN {rwb - 1} ELSE {})

\* the tracker as the orchestrator finds it.  create and manual run on a
\* tracker made a moment ago; _download_new_files runs on an existing one:
\* add_files on a 'local' tracker, download_all_files on any.
\* others_completed: every row of the tracker outside this batch is 'completed'.
Trackers(v) ==
    IF v \in {"create", "manual"}
    THEN {[storage_path |-> << >>, storage_type |-> "local", total_storage_used |-> 0,
           files_downloaded |-> FALSE, others_completed |-> TRUE]}
    ELSE {[storage_path |-> tracker_path, storage_type |-> "local",
           total_storage_used |-> 500, files_downloaded |-> FALSE,
           others_completed |-> oc] : oc \in BOOLEAN}
         \cup {[storage_path |-> << >>, storage_type |-> "link",
                 total_storage_used |-> 0, files_downloaded |-> FALSE,
                 others_completed |-> oc] : oc \in BOOLEAN}

RetryIdle ==
    /\ url = << >>
    /\ max_retries_arg = << >>
    /\ cfg_max_retries = MAX_RETRIES
    /\ rs = RetryInit(<< >>, MAX_RETRIES, NoFile)

Init ==
    /\ RetryIdle
    /\ RestIdle
    /\ variant \in {"create", "manual", "add"}
    /\ organize_by_category \in BOOLEAN
    /\ \E n \in 1..MaxFiles : \E k \in 0..(Len(Profiles) - 1) :
          LET rows == [i \in 1..n |->
                          Row(i, Profiles[((i - 1 + k) % Len(Profiles)) + 1])]
          IN  \/ tracker_files = rows
              \/ /\ variant = "add"
                 /\ n < MaxFiles
                 /\ tracker_files = Append(rows, rows[1])
              \/ /\ n < MaxFiles
                 /\ \E d \in SiblingDirs :
                       tracker_files = Append(rows, [rows[1] EXCEPT !.id = n + 1,
                                                                  !.directory_path = d])
    /\ download_status = [id \in RowIds |-> "pending"]
    /\ download_error = [id \in RowIds |-> << >>]
    /\ local_file = [id \in RowIds |-> << >>]
    /\ tracker \in Trackers(variant)
    /\ N > Cardinality(RowIds) => tracker.storage_type = "local"
    /\ available \in AvailableChoices(total_size)
    /\ dirs \in (IF tracker.storage_path = tracker_path
                  THEN {{base_path, tracker_path}, {base_path}}
                  ELSE {{}, {base_path}})
    /\ pc = "preflight"
    /\ escaped = ""
    /\ space_check = [kind |-> "none"]
    /\ file_list = << >>
    /\ index = 0
    /\ results = [successful |-> << >>, failed |-> << >>, total_bytes |-> 0]
    /\ ret = [kind |-> "none"]
    /\ batch_invoked = FALSE
    /\ xfer = << >>

\* the all-failed short-circuit: every row saved as failed with one text,
\* and the dict returned
AbortAll(row_error, batch_error) ==
    /\ download_status' = [id \in RowIds |-> "failed"]
    /\ download_error' = [id \in RowIds |-> row_error]
    /\ ret' = [kind |-> "returned", successful |-> << >>,
               failed |-> [i \in 1..N |->
                            [file_id |-> tracker_files[i].id,
                             filename |-> tracker_files[i].filename,
                             error |-> row_error]],
               total_bytes |-> 0, error |-> batch_error]
    /\ pc' = "done"
    /\ escaped' = ""

\* an exception no except clause of the orchestrator catches
Escape(exc) ==
    /\ pc' = "raised"
    /\ escaped' = exc
    /\ UNCHANGED <<download_status, download_error, ret>>

acqInputs == <<variant, organize_by_category, tracker_files, available>>
batchVars == <<file_list, index, results, batch_invoked, xfer>>

\* check_available_space: "if not os.path.exists(self.base_path):
\* os.makedirs(self.base_path)" fails; the PermissionError/OSError is neither
\* InsufficientStorageError nor StoragePermissionError
PreflightBaseFails ==
    /\ pc = "preflight"
    /\ base_path \notin dirs
    /\ \E exc \in {"PermissionError", "OSError"} : Escape(exc)
    /\ UNCHANGED <<acqInputs, tracker, dirs, space_check, batchVars, local_file, notAcq>>

\* check_available_space raises InsufficientStorageError
PreflightRaises ==
    /\ pc = "preflight"
    /\ LET sc == check_available_space(total_size, available)
       IN  /\ sc.raised
           /\ space_check' = [kind |-> "raised", msg |-> sc.msg, result |-> sc.result]
           /\ AbortAll(sc.msg, sc.msg)
    /\ dirs' = dirs \cup {base_path}
    /\ UNCHANGED <<acqInputs, tracker, batchVars, local_file, notAcq>>

\* check_available_space returns with sufficient False.  The manual variant
\* formats space_check['available']; the other two read
\* space_check['available_formatted'], a key the dict does not have
PreflightInsufficient ==
    /\ pc = "preflight"
    /\ LET sc == check_available_space(total_size, available)
           text == <<"Insufficient disk space. Need", ToString(total_size), "only",
                     ToString(sc.result.available), "available.">>
       IN  /\ ~sc.raised
           /\ ~sc.result.sufficient
           /\ space_check' = [kind |-> "returned", msg |-> << >>, result |-> sc.result]
           /\ IF variant = "manual" \/ "available_formatted" \in DOMAIN sc.result
              THEN AbortAll(text, <<"Insufficient disk space">>)
              ELSE Escape("KeyError")
    /\ dirs' = dirs \cup {base_path}
    /\ UNCHANGED <<acqInputs, tracker, batchVars, local_file, notAcq>>

\* check_available_space returns with sufficient True
PreflightPasses ==
    /\ pc = "preflight"
    /\ LET sc == check_available_space(total_size, available)
       IN  /\ ~sc.raised
           /\ sc.result.sufficient
           /\ space_check' = [kind |-> "returned", msg |-> << >>, result |-> sc.result]
    /\ dirs' = dirs \cup {base_path}
    /\ pc' = "root"
    /\ UNCHANGED <<acqInputs, tracker, download_status, download_error, escaped, ret,
                   batchVars, local_file, notAcq>>

\* _download_new_files asks for the root only "if not tracker.storage_path"
RootWanted == variant # "add" \/ tracker.storage_path = << >>

\* get_tracker_storage_path(tracker.id, create=True) returns
AllocateRoot ==
    /\ pc = "root"
    /\ IF RootWanted
       THEN /\ dirs' = dirs \cup {tracker_path}
            /\ tracker' = [tracker EXCEPT !.storage_path = tracker_path]
       ELSE UNCHANGED <<dirs, tracker>>
    /\ pc' = "plan"
    /\ UNCHANGED <<acqInputs, download_status, download_error, escaped, ret,
                   space_check, batchVars, local_file, notAcq>>

\* get_tracker_storage_path: os.makedirs fails, StoragePermissionError is
\* raised and "except Exception" takes it
AllocateRootFails ==
    /\ pc = "root"
    /\ RootWanted
    /\ tracker_path \notin dirs
    /\ \E text \in {<<"No write permission for", TrackerPathText>>,
                     <<"Failed to create directory", TrackerPathText>>} :
          LET msg == <<IF variant = "add" THEN "Failed to access storage path:"
                       ELSE "Failed to create storage path:">> \o text
          IN  AbortAll(msg, msg)
    /\ UNCHANGED <<acqInputs, tracker, dirs, space_check, batchVars, local_file, notAcq>>

\* tracker_file.directory_path or 'uncategorized'
CategoryOf(row) ==
    IF row.directory_path = << >>
    THEN <<"u", "n", "c", "a", "t", "e", "g", "o", "r", "i", "z", "e", "d">>
    ELSE row.directory_path

\* get_category_path(tracker.id, category, create=True)
get_category_path(category) ==
    IF ~organize_by_category \/ category = << >> THEN tracker_path
    ELSE tracker_path \o <<sanitize_filename(category, DefaultMaxLength)>>

\* destination = f"{category_path}/{safe_filename}"
Destination(row) ==
    get_category_path(CategoryOf(row))
        \o <<sanitize_filename(row.filename, DefaultMaxLength)>>

\* relative_path = f"trackers/{tracker.id}/files/{safe_category}/{safe_filename}"
RelativePath(row) ==
    tracker_path \o <<sanitize_filename(CategoryOf(row), DefaultMaxLength),
                     sanitize_filename(row.filename, DefaultMaxLength)>>

\* one pass of "for tracker_file in tracker_files": the directory is there
\* or is made, the descriptor joins file_list, the row is saved 'downloading'
PlanFile ==
    /\ pc = "plan"
    /\ Len(file_list) < N
    /\ LET row == tracker_files[Len(file_list) + 1]
       IN  /\ dirs' = dirs \cup {tracker_path, get_category_path(CategoryOf(row))}
           /\ file_list' = Append(file_list,
                  [url |-> row.github_url, destination |-> Destination(row),
                   name |-> row.filename, tracker_file_id |-> row.id])
           /\ download_status' = [download_status EXCEPT ![row.id] = "downloading"]
    /\ UNCHANGED <<acqInputs, tracker, download_error, pc, escaped, ret, space_check,
                   index, results, batch_invoked, xfer, local_file, notAcq>>

\* the same pass when a directory cannot be made: get_category_path raises
\* StoragePermissionError (the tracker's directory) or the bare error of
\* os.makedirs (the category), outside every try of the orchestrator
PlanFileFails ==
    /\ pc = "plan"
    /\ Len(file_list) < N
    /\ LET row == tracker_files[Len(file_list) + 1]
       IN  \/ tracker_path \notin dirs /\ Escape("StoragePermissionError")
           \/ /\ tracker_path \in dirs
              /\ get_category_path(CategoryOf(row)) \notin dirs
              /\ \E exc \in {"PermissionError", "OSError"} : Escape(exc)
    /\ UNCHANGED <<acqInputs, tracker, dirs, space_check, batchVars, local_file, notAcq>>

---------------------------------------------------------------------------
(* FileDownloadService.download_files_batch, one descriptor per step, and  *)
(* the fold of its results.                                                *)

EnvOk(b) == [EnvBase EXCEPT !.body = b]
EnvTimeout == [EnvBase EXCEPT !.net = "timeout"]
EnvStatus(c) == [EnvBase EXCEPT !.status = c]

\* what the world does to the attempts of one descriptor of a batch: the
\* same thing every time, or a timeout first and a good transfer after it
BatchEnvSeqs ==
    {[a \in 1..MAX_RETRIES |-> e] :
        e \in {EnvOk(3), EnvTimeout, EnvStatus("404"), EnvStatus("500"),
               [EnvBase EXCEPT !.content_length = MAX_FILE_SIZE + 1],
               [EnvBase EXCEPT !.stream = "disk_error"],
               [EnvBase EXCEPT !.mkdir = FALSE]}}
    \cup {[a \in 1..MAX_RETRIES |-> IF a = 1 THEN EnvTimeout ELSE EnvOk(100)]}

\* download_with_retry run to its end against envs
RECURSIVE RunRetry(_, _, _)
RunRetry(r, u, envs) ==
    IF r.state # "running" \/ envs = << >> THEN r
    ELSE RunRetry(RetryStep(r, u, Head(envs)), u, Tail(envs))

\* BatchAppend with a batch that gives up at its first failure: once
\* 'failed' holds an entry, every later descriptor is recorded as failed
BatchAppendAbort(res, file_info, r) ==
    IF r.state = "returned" /\ res.failed = << >>
    THEN [res EXCEPT
            !.successful = Append(@, [name |-> file_info.name, url |-> file_info.url,
                                      destination |-> file_info.destination,
                                      bytes_downloaded |-> r.bytes_downloaded,
                                      attempts |-> r.attempts,
                                      tracker_file_id |-> file_info.tracker_file_id]),
            !.total_bytes = @ + r.bytes_downloaded]
    ELSE [res EXCEPT
            !.failed = Append(@, [name |-> file_info.name, url |-> file_info.url,
                                  destination |-> file_info.destination,
                                  error |-> r.msg, error_type |-> r.exc,
                                  tracker_file_id |-> file_info.tracker_file_id])]

\* BatchAppend putting the entry at the head of its list
BatchAppendFront(res, file_info, r) ==
    IF r.state = "returned"
    THEN [res EXCEPT
            !.successful = <<[name |-> file_info.name, url |-> file_info.url,
                              destination |-> file_info.destination,
                              bytes_downloaded |-> r.bytes_downloaded,
                              attempts |-> r.attempts,
                              tracker_file_id |-> file_info.tracker_file_id]>> \o @,
            !.total_bytes = @ + r.bytes_downloaded]
    ELSE [res EXCEPT
            !.failed = <<[name |-> file_info.name, url |-> file_info.url,
                          destination |-> file_info.destination,
                          error |-> r.msg, error_type |-> r.exc,
                          tracker_file_id |-> file_info.tracker_file_id]>> \o @]

\* results after one pass of "for index, file_info in enumerate(file_list)"
\* in which download_with_retry ended as r
BatchAppend(res, file_info, r) ==
    IF r.state = "returned"
    THEN [res EXCEPT
            !.successful = Append(@, [name |-> file_info.name, url |-> file_info.url,
                                      destination |-> file_info.destination,
                                      bytes_downloaded |-> r.bytes_downloaded,
                                      attempts |-> r.attempts,
                                      tracker_file_id |-> file_info.tracker_file_id]),
            !.total_bytes = @ + r.bytes_downloaded]
    ELSE [res EXCEPT
            !.failed = Append(@, [name |-> file_info.name, url |-> file_info.url,
                                  destination |-> file_info.destination,
                                  error |-> r.msg, error_type |-> r.exc,
                                  tracker_file_id |-> file_info.tracker_file_id])]

\* results = download_service.download_files_batch(file_list) is entered
StartBatch ==
    /\ pc = "plan"
    /\ Len(file_list) = N
    /\ pc' = "batch"
    /\ batch_invoked' = TRUE
    /\ UNCHANGED <<acqInputs, tracker, dirs, download_status, download_error, escaped,
                   ret, space_check, file_list, index, results, xfer, local_file, notAcq>>

\* one descriptor of the batch: the rewrite of its URL, download_with_retry,
\* and the entry in 'successful' or 'failed'
BatchFile ==
    /\ pc = "batch"
    /\ index < Len(file_list)
    /\ \E envs \in BatchEnvSeqs :
          LET file_info == file_list[index + 1]
              r == RunRetry(RetryInit(<< >>, MAX_RETRIES, NoFile),
                            RawUrl(file_info.url), envs)
          IN  /\ results' = BatchAppend(results, file_info, r)
              /\ xfer' = Append(xfer, [ok |-> r.state = "returned", exc |-> r.exc,
                                       bytes |-> r.bytes_downloaded,
                                       calls |-> r.calls, http_calls |-> r.http_calls])
    /\ index' = index + 1
    /\ UNCHANGED <<acqInputs, tracker, dirs, download_status, download_error, pc,
                   escaped, ret, space_check, file_list, batch_invoked, local_file, notAcq>>

\* next((tf for tf in tracker_files if tf.id == info.get('tracker_file_id')), None):
\* the row's place in tracker_files, 0 for None
FindRow(id) ==
    IF \E k \in 1..N : tracker_files[k].id = id
    THEN CHOOSE k \in 1..N : /\ tracker_files[k].id = id
                             /\ \A j \in 1..(k - 1) : tracker_files[j].id # id
    ELSE 0

\* successful_downloads, from results['successful']
RECURSIVE FoldSuccessful(_)
FoldSuccessful(infos) ==
    IF infos = << >> THEN << >>
    ELSE LET k == FindRow(Head(infos).tracker_file_id)
         IN  (IF k = 0 THEN << >>
              ELSE <<[file_id |-> tracker_files[k].id,
                      filename |-> tracker_files[k].filename,
                      bytes_downloaded |-> Head(infos).bytes_downloaded]>>)
             \o FoldSuccessful(Tail(infos))

\* failed_downloads, from results['failed']
RECURSIVE FoldFailed(_)
FoldFailed(infos) ==
    IF infos = << >> THEN << >>
    ELSE LET k == FindRow(Head(infos).tracker_file_id)
         IN  (IF k = 0 THEN << >>
              ELSE <<[file_id |-> tracker_files[k].id,
                      filename |-> tracker_files[k].filename,
                      error |-> Head(infos).error]>>)
             \o FoldFailed(Tail(infos))

\* TotalBytesDownloaded with "=" for "+=": the last entry only
TotalBytesDownloadedLast(succ) ==
    IF succ = << >> THEN 0 ELSE succ[Len(succ)].bytes_downloaded

\* total_bytes_downloaded: "total_bytes_downloaded += success_info.get(...)"
\* once per entry of successful_downloads
TotalBytesDownloaded(succ) ==
    SumSeq([i \in 1..Len(succ) |-> succ[i].bytes_downloaded])

\* file_path_mapping[tracker_file.id] = relative_path, for every row planned
file_path_mapping ==
    [id \in RowIds |->
        RelativePath(tracker_files[CHOOSE i \in 1..N :
                        /\ tracker_files[i].id = id
                        /\ \A j \in (i + 1)..N : tracker_files[j].id # id])]

\* tracker.files_downloaded.  create, manual: len(failed_downloads) == 0.
\* _download_new_files: all(f.download_status == 'completed' for f in
\* all_files if tracker.storage_type == 'local')
FilesDownloaded(failed_downloads, status) ==
    IF variant # "add" THEN Len(failed_downloads) = 0
    ELSE tracker.storage_type = "local" =>
            /\ tracker.others_completed
            /\ \A id \in RowIds : status[id] = "completed"

\* download_files_batch has returned: the rows are saved, 'completed' in the
\* first loop and 'failed' in the second, the tracker's totals are saved and
\* the orchestrator returns
Fold ==
    /\ pc = "batch"
    /\ index = Len(file_list)
    /\ LET succ == FoldSuccessful(results.successful)
           fail == FoldFailed(results.failed)
           total == TotalBytesDownloaded(succ)
           isFailed(id) == \E j \in 1..Len(fail) : fail[j].file_id = id
           isDone(id) == \E j \in 1..Len(succ) : succ[j].file_id = id
           status == [id \in RowIds |->
                        IF isFailed(id) THEN "failed"
                        ELSE IF isDone(id) THEN "completed" ELSE download_status[id]]
           lastError(id) ==
               LET js == {j \in 1..Len(fail) : fail[j].file_id = id}
               IN  fail[CHOOSE j \in js : \A h \in js : h <= j].error
       IN  /\ download_status' = status
           /\ download_error' = [id \in RowIds |->
                                   IF isFailed(id) THEN lastError(id)
                                   ELSE IF isDone(id) THEN << >> ELSE download_error[id]]
           /\ local_file' = [id \in RowIds |->
                               IF isDone(id) THEN file_path_mapping[id]
                               ELSE local_file[id]]
           /\ tracker' = [tracker EXCEPT
                  !.total_storage_used = IF variant = "add" THEN @ + total ELSE total,
                  !.files_downloaded = FilesDownloaded(fail, status)]
           /\ ret' = [kind |-> "returned", successful |-> succ, failed |-> fail,
                      total_bytes |-> total]
    /\ pc' = "done"
    /\ UNCHANGED <<acqInputs, dirs, escaped, space_check, batchVars, notAcq>>

Next ==
    \/ PreflightBaseFails
    \/ PreflightRaises
    \/ PreflightInsufficient
    \/ PreflightPasses
    \/ AllocateRoot
    \/ AllocateRootFails
    \/ PlanFile
    \/ PlanFileFails
    \/ StartBatch
    \/ BatchFile
    \/ Fold

Spec == Init /\ [][Next]_vars

---------------------------------------------------------------------------
(* SpecFix: the management command fix_tracker_files on tracker 1, run     *)
(* once or several times in a row.                                         *)

\* most rows of the tracker, and most runs of the command in a row
MaxRecords == 2
MaxRuns == 2

\* actual_file_size (null=True) of a row never downloaded
NullSize == -1

\* a path some earlier download or upload recorded
OtherPath == <<<<"t", "r", "a", "c", "k", "e", "r", "_", "f", "i", "l", "e", "s">>,
               <<"1">>, <<"o", ".", "s">>>>

\* the rows a tracker may hold before the command runs: linked to a file
\* and 'completed', or not linked and 'pending' or 'failed'
FixRows(i) ==
    {[id |-> i, filename |-> Filenames[i], directory_path |-> d, github_url |-> u,
      local_file |-> IF st = "completed" THEN OtherPath ELSE << >>,
      actual_file_size |-> IF st = "completed" THEN 5 ELSE NullSize,
      download_status |-> st,
      download_error |-> IF st = "failed" THEN <<"Download timed out after", "600">>
                         ELSE << >>] :
        d \in {<< >>, <<"M", "/", "x">>},
        u \in {<< >>, <<"github.com", "u", "blob", "main", "a.stl">>},
        st \in {"pending", "failed", "completed"}}

\* Broken without the local_file = '' filter
BrokenLinkedToo(recs) == {i \in 1..Len(recs) : recs[i].github_url # << >>}

\* broken_files: github_url neither NULL nor '', local_file = ''
Broken(recs) ==
    {i \in 1..Len(recs) : recs[i].github_url # << >> /\ recs[i].local_file = << >>}

\* a set of row numbers as a sequence, lowest first
RECURSIVE InOrder(_)
InOrder(ids) ==
    IF ids = {} THEN << >>
    ELSE LET least == CHOOSE i \in ids : \A j \in ids : i <= j
         IN  <<least>> \o InOrder(ids \ {least})

\* Exists answering yes for every path
ExistsAnywhere(path) == TRUE

\* os.path.exists(full_path)
Exists(path) == path \in DOMAIN disk_files /\ disk_files[path] # NoFile

InitFix ==
    /\ AcqIdle
    /\ RetryIdle
    /\ DlIdle
    /\ SanIdle
    /\ CrawlIdle
    /\ CleanupIdle
    /\ CrawlPairIdle
    /\ dry_run = FALSE
    /\ \E n \in 1..MaxRecords : \E rows \in [1..n -> UNION {FixRows(i) : i \in 1..n}] :
          /\ \A i \in 1..n : rows[i].id = i
          /\ fix_records = rows
    /\ disk_files \in [{RelativePath(fix_records[i]) : i \in 1..Len(fix_records)}
                          -> {NoFile, 7}]
    /\ fix_before = fix_records
    /\ broken_files = << >>
    /\ fix_pc = "idle"
    /\ fix_i = 0
    /\ fixed_count = 0
    /\ missing_count = 0
    /\ runs = 0

\* handle up to the loop: the queryset is evaluated; with no row in it the
\* command reports and returns
FixStart ==
    /\ fix_pc \in {"idle", "done"}
    /\ runs < MaxRuns
    /\ \E d \in BOOLEAN : dry_run' = d
    /\ fix_before' = fix_records
    /\ broken_files' = InOrder(Broken(fix_records))
    /\ fix_i' = 0
    /\ fixed_count' = 0
    /\ missing_count' = 0
    /\ IF Broken(fix_records) = {}
       THEN fix_pc' = "done" /\ runs' = runs + 1
       ELSE fix_pc' = "loop" /\ runs' = runs
    /\ UNCHANGED <<fix_records, disk_files, notFix>>

\* one pass of "for tracker_file in broken_files"
FixFile ==
    /\ fix_pc = "loop"
    /\ fix_i < Len(broken_files)
    /\ LET tracker_file == fix_before[broken_files[fix_i + 1]]
           relative_path == RelativePath(tracker_file)
       IN  IF Exists(relative_path)
           THEN /\ fix_records' =
                     IF dry_run THEN fix_records
                     ELSE [fix_records EXCEPT ![tracker_file.id] =
                              [tracker_file EXCEPT
                                  !.local_file = relative_path,
                                  !.actual_file_size = disk_files[relative_path],
                                  !.download_status = "completed",
                                  !.download_error = << >>]]
                /\ fixed_count' = fixed_count + 1
                /\ UNCHANGED missing_count
           ELSE /\ missing_count' = missing_count + 1
                /\ UNCHANGED <<fix_records, fixed_count>>
    /\ fix_i' = fix_i + 1
    /\ UNCHANGED <<dry_run, disk_files, fix_before, broken_files, fix_pc, runs,
                   notFix>>

\* the loop is over: the counts are reported and handle returns
FixEnd ==
    /\ fix_pc = "loop"
    /\ fix_i = Len(broken_files)
    /\ fix_pc' = "done"
    /\ runs' = runs + 1
    /\ UNCHANGED <<dry_run, fix_records, disk_files, fix_before, broken_files, fix_i,
                   fixed_count, missing_count, notFix>>

NextFix == FixStart \/ FixFile \/ FixEnd

SpecFix == InitFix /\ [][NextFix]_vars

----------------------------------------------------------------------------
(* SpecDownload: download_file called on one destination, a call per step. *)

MaxCalls == 2

DlUrls == {<<"raw.githubusercontent.com", "u", "main", "a.stl">>,
           <<"evil.example", "a.stl">>}

\* declared lengths (0: no header) and the KiB the server goes on to send
DlContentLengths == {0, 100, MAX_FILE_SIZE, MAX_FILE_SIZE + 1}
DlBodySizes == {0, 3, 94, 96, 99, 100, 101, 200, MAX_FILE_SIZE, MAX_FILE_SIZE + 7}

DlEnvs ==
    {[EnvBase EXCEPT !.mkdir = FALSE]}
    \cup {[EnvBase EXCEPT !.net = n] : n \in {"timeout", "connection_error"}}
    \cup {[EnvBase EXCEPT !.status = "404"]}
    \cup {[EnvBase EXCEPT !.content_length = c, !.body = b, !.stream = st] :
              c \in DlContentLengths, b \in DlBodySizes,
              st \in {"ok", "disk_error", "net_error"}}

InitDownload ==
    /\ AcqIdle
    /\ RetryIdle
    /\ FixIdle
    /\ SanIdle
    /\ CrawlIdle
    /\ CleanupIdle
    /\ CrawlPairIdle
    /\ dl_url = << >>
    /\ dl_env = EnvBase
    /\ dl_file \in {NoFile, 4}
    /\ dl_out = Outcome("none", << >>, 0, 0, FALSE, dl_file, "idle")
    /\ dl_calls = 0

\* download_file(url, destination), timeout at its default
DownloadCall ==
    /\ dl_calls < MaxCalls
    /\ \E u \in DlUrls, env \in DlEnvs :
          LET o == download_file(u, dl_file, DOWNLOAD_TIMEOUT, env)
          IN  /\ dl_url' = u
              /\ dl_env' = env
              /\ dl_out' = o
              /\ dl_file' = o.file
    /\ dl_calls' = dl_calls + 1
    /\ UNCHANGED notDl

NextDownload == DownloadCall

SpecDownload == InitDownload /\ [][NextDownload]_vars

----------------------------------------------------------------------------
(* SpecSanitize: one call of StorageManager.sanitize_filename.             *)

MaxNameLen == 3

\* the nine characters the code replaces, the two it strips, two it keeps
SanAlphabet == invalid_chars \cup {".", " ", "a", "b"}

SanNames == UNION {[1..n -> SanAlphabet] : n \in 0..MaxNameLen}

\* max_length: short enough to cut a name of the model, and the default
SanMaxLengths == {0, 1, 2, DefaultMaxLength}

InitSanitize ==
    /\ AcqIdle
    /\ RetryIdle
    /\ FixIdle
    /\ DlIdle
    /\ CrawlIdle
    /\ CleanupIdle
    /\ CrawlPairIdle
    /\ san_filename \in SanNames
    /\ san_max_length \in SanMaxLengths
    /\ san_out = << >>
    /\ san_called = FALSE

\* sanitize_filename(filename, max_length)
Sanitize ==
    /\ ~san_called
    /\ san_out' = sanitize_filename(san_filename, san_max_length)
    /\ san_called' = TRUE
    /\ UNCHANGED <<san_filename, san_max_length, notSan>>

NextSanitize == Sanitize

SpecSanitize == InitSanitize /\ [][NextSanitize]_vars

----------------------------------------------------------------------------
(* SpecCrawl: one call of crawl_github_repository.                         *)

MaxTree == 2

OwnerO == <<"o">>
RepoR == <<"r">>
BranchMain == <<"m", "a", "i", "n">>
DirS == <<"s">>

\* entries of the repository's tree as the Git Trees API lists them
TreeEntries ==
    {[path |-> <<"s", "/", "a", ".", "s", "t", "l">>, type |-> "blob",
      size |-> FILE_SIZE_WARN_BYTES - 1],
     [path |-> <<"s", "/", "d", "/", "b", ".", "S", "T", "L">>, type |-> "blob",
      size |-> FILE_SIZE_WARN_BYTES],
     [path |-> <<"s", "/", "c", ".", "o", "b", "j">>, type |-> "blob",
      size |-> FILE_SIZE_BLOCK_BYTES - 1],
     [path |-> <<"s", "/", "e", ".", "3", "m", "f">>, type |-> "blob",
      size |-> FILE_SIZE_BLOCK_BYTES],
     [path |-> <<"s", "2", "/", "c", ".", "s", "t", "l">>, type |-> "blob", size |-> 5],
     [path |-> <<"t", "/", "a", ".", "s", "t", "l">>, type |-> "blob",
      size |-> FILE_SIZE_BLOCK_BYTES + 1],
     [path |-> <<"s", "/", "r", ".", "m", "d">>, type |-> "blob", size |-> 7],
     [path |-> <<"s", ".", "s", "t", "l">>, type |-> "blob", size |-> 0],
     [path |-> <<"s", "/", "n">>, type |-> "blob", size |-> 3],
     [path |-> <<"s">>, type |-> "tree", size |-> 0]}

\* trees of up to MaxTree entries, in path order as the API lists them
Trees ==
    UNION {{t \in [1..n -> TreeEntries] :
               \A i, j \in 1..n : i < j => StrLess(t[i].path, t[j].path)} :
           n \in 0..MaxTree}

\* the tree an earlier crawl saw
OldTree ==
    <<[path |-> <<"s", "/", "o", ".", "s", "t", "l">>, type |-> "blob", size |-> 11],
      [path |-> <<"o", ".", "o", "b", "j">>, type |-> "blob", size |-> 12]>>

CrawlUrls ==
    {<<GithubHost, OwnerO, RepoR>>,
     <<GithubHost, OwnerO, RepoR, << >> >>,
     <<GithubHost, OwnerO, RepoR, TreeWord, BranchMain>>,
     <<GithubHost, OwnerO, RepoR, TreeWord, BranchMain, DirS>>,
     <<GithubHost, OwnerO, RepoR, TreeWord, BranchMain, DirS, << >> >>,
     <<GithubHost, OwnerO, RepoR, BlobWord, BranchMain, DirS>>,
     <<<<"e", "v", "i", "l">>, OwnerO, RepoR>>}

\* how a request to the GitHub API ends
ApiOutcomes == {"ok", "rate_limit", "not_found", "timeout", "connection_error",
                "http_error"}

\* the exception get_default_branch and fetch_tree raise for it
ApiError(outcome) ==
    IF outcome = "rate_limit" THEN "RateLimitError"
    ELSE IF outcome = "not_found" THEN "RepositoryNotFoundError"
    ELSE "NetworkError"

NoManifest == [success |-> FALSE]
NoLists == [normal_files |-> << >>, large_files |-> << >>, blocked_files |-> << >>]

\* the entry an earlier crawl of the same URL left, if it found a file
EarlierCaches(u) ==
    LET p == parse_github_url(u)
        b == IF p.branch = << >> THEN default_branch ELSE p.branch
        lists == filter_printable_files(OldTree, p.path)
        key == get_cache_key(p.owner, p.repo, b, p.path)
    IN  IF p.error # "" \/ lists = NoLists THEN {}
        ELSE {[k \in {key} |-> Manifest(lists, p.owner, p.repo, b, p.path)]}

InitCrawl ==
    /\ AcqIdle
    /\ RetryIdle
    /\ FixIdle
    /\ DlIdle
    /\ SanIdle
    /\ CleanupIdle
    /\ CrawlPairIdle
    /\ github_url \in CrawlUrls
    /\ force_refresh \in BOOLEAN
    /\ upstream \in Trees
    /\ default_branch = BranchMain
    /\ cache \in {<< >>} \cup EarlierCaches(github_url)
    /\ crawl_pc = "start"
    /\ parsed = [error |-> ""]
    /\ crawl_branch = << >>
    /\ http_requests = << >>
    /\ crawl_lists = NoLists
    /\ crawl_ret = NoManifest
    /\ crawl_error = ""

crawlInputs == <<github_url, force_refresh, upstream, default_branch>>

\* parse_github_url raises InvalidURLError
ParseRejects ==
    /\ crawl_pc = "start"
    /\ parse_github_url(github_url).error # ""
    /\ crawl_error' = parse_github_url(github_url).error
    /\ crawl_pc' = "raised"
    /\ UNCHANGED <<crawlInputs, cache, parsed, crawl_branch, http_requests, crawl_lists,
                   crawl_ret, notCrawl>>

\* parsed = parse_github_url(github_url); branch = parsed['branch']
ParseAccepts ==
    /\ crawl_pc = "start"
    /\ parse_github_url(github_url).error = ""
    /\ parsed' = parse_github_url(github_url)
    /\ crawl_branch' = parsed'.branch
    /\ crawl_pc' = IF parsed'.branch = << >> THEN "default_branch" ELSE "cache"
    /\ UNCHANGED <<crawlInputs, cache, http_requests, crawl_lists, crawl_ret,
                   crawl_error, notCrawl>>

\* "if not branch: branch = get_default_branch(owner, repo)"
GetDefaultBranch ==
    /\ crawl_pc = "default_branch"
    /\ http_requests' = Append(http_requests, "repos")
    /\ \E outcome \in ApiOutcomes :
          IF outcome = "ok"
          THEN /\ crawl_branch' = default_branch
               /\ crawl_pc' = "cache"
               /\ UNCHANGED crawl_error
          ELSE /\ crawl_error' = ApiError(outcome)
               /\ crawl_pc' = "raised"
               /\ UNCHANGED crawl_branch
    /\ UNCHANGED <<crawlInputs, cache, parsed, crawl_lists, crawl_ret, notCrawl>>

CacheKey == get_cache_key(parsed.owner, parsed.repo, crawl_branch, parsed.path)

\* "if not force_refresh: cached_data = cache.get(cache_key); if cached_data:"
CacheHit ==
    /\ crawl_pc = "cache"
    /\ ~force_refresh
    /\ CacheKey \in DOMAIN cache
    /\ crawl_ret' = [cache[CacheKey] EXCEPT !.cached = TRUE]
    /\ crawl_pc' = "done"
    /\ UNCHANGED <<crawlInputs, cache, parsed, crawl_branch, http_requests, crawl_lists,
                   crawl_error, notCrawl>>

CacheMiss ==
    /\ crawl_pc = "cache"
    /\ force_refresh \/ CacheKey \notin DOMAIN cache
    /\ crawl_pc' = "fetch"
    /\ UNCHANGED <<crawlInputs, cache, parsed, crawl_branch, http_requests, crawl_lists,
                   crawl_ret, crawl_error, notCrawl>>

\* fetch_tree: "return [item for item in data.get('tree', []) if item['type'] == 'blob']"
Blobs(tree) == SelectSeq(tree, LAMBDA item : item.type = "blob")

\* all_files = fetch_tree(owner, repo, branch) raises
FetchTreeFails ==
    /\ crawl_pc = "fetch"
    /\ http_requests' = Append(http_requests, "trees")
    /\ \E outcome \in ApiOutcomes \ {"ok"} : crawl_error' = ApiError(outcome)
    /\ crawl_pc' = "raised"
    /\ UNCHANGED <<crawlInputs, cache, parsed, crawl_branch, crawl_lists, crawl_ret,
                   notCrawl>>

\* fetch_tree returns, filter_printable_files; "if not all_printable: raise"
FetchTree ==
    /\ crawl_pc = "fetch"
    /\ http_requests' = Append(http_requests, "trees")
    /\ LET lists == filter_printable_files(Blobs(upstream), parsed.path)
       IN  /\ crawl_lists' = lists
           /\ IF lists = NoLists
              THEN crawl_error' = "EmptyResultError" /\ crawl_pc' = "raised"
              ELSE crawl_pc' = "build" /\ UNCHANGED crawl_error
    /\ UNCHANGED <<crawlInputs, cache, parsed, crawl_branch, crawl_ret, notCrawl>>

\* the result is built, cache.set(cache_key, result, CACHE_TIMEOUT), return
BuildAndStore ==
    /\ crawl_pc = "build"
    /\ LET result == Manifest(crawl_lists, parsed.owner, parsed.repo, crawl_branch,
                              parsed.path)
       IN  /\ cache' = [k \in DOMAIN cache \cup {CacheKey} |->
                           IF k = CacheKey THEN result ELSE cache[k]]
           /\ crawl_ret' = result
    /\ crawl_pc' = "done"
    /\ UNCHANGED <<crawlInputs, parsed, crawl_branch, http_requests, crawl_lists,
                   crawl_error, notCrawl>>

NextCrawl ==
    \/ ParseRejects
    \/ ParseAccepts
    \/ GetDefaultBranch
    \/ CacheHit
    \/ CacheMiss
    \/ FetchTreeFails
    \/ FetchTree
    \/ BuildAndStore

SpecCrawl == InitCrawl /\ [][NextCrawl]_vars

----------------------------------------------------------------------------
(* SpecCleanup: StorageManager.cleanup_tracker_files and                   *)
(* TrackerViewSet.destroy on the directories of two trackers.              *)

MaxOps == 2

TrackerIds == {1, 2}

\* files a tracker's directory may hold, under base_path, and their sizes
StPaths ==
    {<<ToString(b), "files", "B", "a.stl">> : b \in TrackerIds}
    \cup {<<ToString(b), "files", "uncategorized", "c.stl">> : b \in TrackerIds}

StSize(path) == IF path[4] = "a.stl" THEN 3 ELSE 5

RECURSIVE SumSizes(_, _)
SumSizes(disk, paths) ==
    IF paths = {} THEN 0
    ELSE LET p == CHOOSE q \in paths : TRUE
         IN  disk[p] + SumSizes(disk, paths \ {p})

\* TreeOf taking every file of the disk
TreeOfAny(tracker_id, disk) == DOMAIN disk

\* the files os.walk(tracker_path) finds: tracker_path is
\* os.path.join(self.base_path, str(tracker_id))
TreeOf(tracker_id, disk) == {p \in DOMAIN disk : p[1] = ToString(tracker_id)}

Without(disk, paths) == [p \in DOMAIN disk \ paths |-> disk[p]]

\* cleanup_tracker_files(tracker_id) on a disk with the files disk and the
\* tracker directories there; rmtree_ok: shutil.rmtree goes through; left:
\* the files a failing rmtree did not get to
cleanup_tracker_files(tracker_id, disk, there, rmtree_ok, left) ==
    IF ToString(tracker_id) \notin there
    THEN [ret |-> [success |-> TRUE, deleted_bytes |-> 0, deleted_files |-> 0],
          disk |-> disk, there |-> there]
    ELSE IF rmtree_ok
    THEN [ret |-> [success |-> TRUE,
                   deleted_bytes |-> SumSizes(disk, TreeOf(tracker_id, disk)),
                   deleted_files |-> Cardinality(TreeOf(tracker_id, disk))],
          disk |-> Without(disk, TreeOf(tracker_id, disk)),
          there |-> there \ {ToString(tracker_id)}]
    ELSE [ret |-> [success |-> FALSE, deleted_bytes |-> 0, deleted_files |-> 0],
          disk |-> Without(disk, TreeOf(tracker_id, disk) \ left),
          there |-> there]

NoCleanup == [success |-> TRUE, deleted_bytes |-> -1, deleted_files |-> -1]

InitCleanup ==
    /\ AcqIdle
    /\ RetryIdle
    /\ FixIdle
    /\ DlIdle
    /\ SanIdle
    /\ CrawlIdle
    /\ CrawlPairIdle
    /\ cleanup_on_delete \in BOOLEAN
    /\ \E ids \in SUBSET TrackerIds : st_trackers \in [ids -> {"local", "link"}]
    /\ \E paths \in SUBSET StPaths : st_disk = [p \in paths |-> StSize(p)]
    /\ st_dirs \in SUBSET {ToString(b) : b \in TrackerIds}
    /\ \A p \in DOMAIN st_disk : p[1] \in st_dirs
    /\ st_before = [disk |-> st_disk, there |-> st_dirs]
    /\ st_ops = << >>

\* a call of cleanup_tracker_files(tracker_id)
CleanupCall ==
    /\ Len(st_ops) < MaxOps
    /\ \E tracker_id \in TrackerIds, rmtree_ok \in BOOLEAN :
       \E left \in SUBSET TreeOf(tracker_id, st_disk) :
          LET c == cleanup_tracker_files(tracker_id, st_disk, st_dirs, rmtree_ok, left)
          IN  /\ st_disk' = c.disk
              /\ st_dirs' = c.there
              /\ st_ops' = Append(st_ops, [kind |-> "cleanup", id |-> tracker_id,
                                           storage_type |-> "", ret |-> c.ret])
    /\ st_before' = [disk |-> st_disk, there |-> st_dirs]
    /\ UNCHANGED <<cleanup_on_delete, st_trackers, notCleanup>>

\* DELETE /api/trackers/<id>/: the row goes, and for a 'local' tracker
\* cleanup_tracker_files is called
Destroy ==
    /\ Len(st_ops) < MaxOps
    /\ \E tracker_id \in DOMAIN st_trackers, rmtree_ok \in BOOLEAN :
       \E left \in SUBSET TreeOf(tracker_id, st_disk) :
          LET storage_type == st_trackers[tracker_id]
              c == cleanup_tracker_files(tracker_id, st_disk, st_dirs, rmtree_ok, left)
          IN  /\ st_trackers' = [t \in DOMAIN st_trackers \ {tracker_id} |-> st_trackers[t]]
              /\ IF storage_type = "local"
                 THEN /\ st_disk' = c.disk
                      /\ st_dirs' = c.there
                 ELSE UNCHANGED <<st_disk, st_dirs>>
              /\ st_ops' = Append(st_ops,
                                  [kind |-> "destroy", id |-> tracker_id,
                                   storage_type |-> storage_type,
                                   ret |-> IF storage_type = "local" THEN c.ret
                                           ELSE NoCleanup])
    /\ st_before' = [disk |-> st_disk, there |-> st_dirs]
    /\ UNCHANGED <<cleanup_on_delete, notCleanup>>

NextCleanup ==
    \/ CleanupCall
    \/ Destroy

SpecCleanup == InitCleanup /\ [][NextCleanup]_vars

----------------------------------------------------------------------------
(* SpecCrawlPair: two calls of crawl_github_repository at once, on URLs    *)
(* that name one (owner, repo, branch, path), sharing the cache.  A step   *)
(* is what one call does up to its next request or cache access.           *)

MaxPairTree == 2

Procs == {1, 2}

PairEntries ==
    {e \in TreeEntries :
        e.path \in {<<"s", "/", "a", ".", "s", "t", "l">>,
                    <<"s", "/", "c", ".", "o", "b", "j">>,
                    <<"t", "/", "a", ".", "s", "t", "l">>}}

\* trees of up to MaxPairTree entries, in path order
PairTrees ==
    UNION {{t \in [1..n -> PairEntries] :
               \A i, j \in 1..n : i < j => StrLess(t[i].path, t[j].path)} :
           n \in 0..MaxPairTree}

\* owner, repo, branch and path a call on link works on, the branch being
\* the repository's default one when the URL names none
TargetOf(link) ==
    LET p == parse_github_url(link)
    IN  [owner |-> p.owner, repo |-> p.repo,
         branch |-> IF p.branch = << >> THEN BranchMain ELSE p.branch,
         path |-> p.path]

\* result as crawl_github_repository builds it from the tree
CrawlResult(tree, target) ==
    Manifest(filter_printable_files(Blobs(tree), target.path),
             target.owner, target.repo, target.branch, target.path)

PairKey(target) == get_cache_key(target.owner, target.repo, target.branch, target.path)

\* cache.set that stores nothing
CacheSetDropped(c, key, value) == c

\* cache.set(cache_key, result, CACHE_TIMEOUT)
CacheSet(c, key, value) ==
    [k \in DOMAIN c \cup {key} |-> IF k = key THEN value ELSE c[k]]

\* what the cache may hold for the key when the calls start: nothing, the
\* result of a crawl of the tree as it is, or of the tree as it once was
PairCaches(tree, target) ==
    {<< >>}
    \cup {CacheSet(<< >>, PairKey(target), CrawlResult(t, target)) :
             t \in {u \in {tree, OldTree} :
                       filter_printable_files(Blobs(u), target.path) # NoLists}}

InitCrawlPair ==
    /\ AcqIdle
    /\ RetryIdle
    /\ FixIdle
    /\ DlIdle
    /\ SanIdle
    /\ CrawlIdle
    /\ CleanupIdle
    /\ pair_url \in [Procs -> {u \in CrawlUrls : parse_github_url(u).error = ""}]
    /\ TargetOf(pair_url[1]) = TargetOf(pair_url[2])
    /\ pair_force \in [Procs -> BOOLEAN]
    /\ pair_upstream \in PairTrees
    /\ pair_cache \in PairCaches(pair_upstream, TargetOf(pair_url[1]))
    /\ pair_cache0 = pair_cache
    /\ pair_pc = [p \in Procs |-> "start"]
    /\ pair_branch = [p \in Procs |-> << >>]
    /\ pair_lists = [p \in Procs |-> NoLists]
    /\ pair_ret = [p \in Procs |-> NoManifest]
    /\ pair_error = [p \in Procs |-> ""]

pairInputs == <<pair_url, pair_force, pair_upstream, pair_cache0>>

\* parsed = parse_github_url(github_url); branch = parsed['branch']
PairParse ==
    \E p \in Procs :
       /\ pair_pc[p] = "start"
       /\ pair_branch' = [pair_branch EXCEPT ![p] = parse_github_url(pair_url[p]).branch]
       /\ pair_pc' = [pair_pc EXCEPT ![p] = IF pair_branch'[p] = << >>
                                             THEN "default_branch" ELSE "cache"]
       /\ UNCHANGED <<pairInputs, pair_cache, pair_lists, pair_ret, pair_error,
                      notCrawlPair>>

\* "if not branch: branch = get_default_branch(owner, repo)"
PairGetDefaultBranch ==
    \E p \in Procs :
       /\ pair_pc[p] = "default_branch"
       /\ \E outcome \in ApiOutcomes :
             IF outcome = "ok"
             THEN /\ pair_branch' = [pair_branch EXCEPT ![p] = BranchMain]
                  /\ pair_pc' = [pair_pc EXCEPT ![p] = "cache"]
                  /\ UNCHANGED pair_error
             ELSE /\ pair_error' = [pair_error EXCEPT ![p] = ApiError(outcome)]
                  /\ pair_pc' = [pair_pc EXCEPT ![p] = "raised"]
                  /\ UNCHANGED pair_branch
       /\ UNCHANGED <<pairInputs, pair_cache, pair_lists, pair_ret, notCrawlPair>>

\* cache_key of call p
KeyOf(p) ==
    LET parsed_p == parse_github_url(pair_url[p])
    IN  get_cache_key(parsed_p.owner, parsed_p.repo, pair_branch[p], parsed_p.path)

\* cache.get finds the entry: a copy of it is marked and returned
PairCacheHit ==
    \E p \in Procs :
       /\ pair_pc[p] = "cache"
       /\ ~pair_force[p]
       /\ KeyOf(p) \in DOMAIN pair_cache
       /\ pair_ret' = [pair_ret EXCEPT ![p] = [pair_cache[KeyOf(p)] EXCEPT !.cached = TRUE]]
       /\ pair_pc' = [pair_pc EXCEPT ![p] = "done"]
       /\ UNCHANGED <<pairInputs, pair_cache, pair_branch, pair_lists, pair_error,
                      notCrawlPair>>

\* force_refresh, or cache.get finds nothing
PairCacheMiss ==
    \E p \in Procs :
       /\ pair_pc[p] = "cache"
       /\ pair_force[p] \/ KeyOf(p) \notin DOMAIN pair_cache
       /\ pair_pc' = [pair_pc EXCEPT ![p] = "fetch"]
       /\ UNCHANGED <<pairInputs, pair_cache, pair_branch, pair_lists, pair_ret,
                      pair_error, notCrawlPair>>

\* fetch_tree raises
PairFetchTreeFails ==
    \E p \in Procs :
       /\ pair_pc[p] = "fetch"
       /\ \E outcome \in ApiOutcomes \ {"ok"} :
             pair_error' = [pair_error EXCEPT ![p] = ApiError(outcome)]
       /\ pair_pc' = [pair_pc EXCEPT ![p] = "raised"]
       /\ UNCHANGED <<pairInputs, pair_cache, pair_branch, pair_lists, pair_ret,
                      notCrawlPair>>

\* fetch_tree returns, filter_printable_files; "if not all_printable: raise"
PairFetchTree ==
    \E p \in Procs :
       /\ pair_pc[p] = "fetch"
       /\ LET lists == filter_printable_files(Blobs(pair_upstream),
                                              parse_github_url(pair_url[p]).path)
          IN  /\ pair_lists' = [pair_lists EXCEPT ![p] = lists]
              /\ IF lists = NoLists
                 THEN /\ pair_error' = [pair_error EXCEPT ![p] = "EmptyResultError"]
                      /\ pair_pc' = [pair_pc EXCEPT ![p] = "raised"]
                 ELSE /\ pair_pc' = [pair_pc EXCEPT ![p] = "build"]
                      /\ UNCHANGED pair_error
       /\ UNCHANGED <<pairInputs, pair_cache, pair_branch, pair_ret, notCrawlPair>>

\* the result is built from the call's own lists, cache.set, return
PairBuildAndStore ==
    \E p \in Procs :
       /\ pair_pc[p] = "build"
       /\ LET parsed_p == parse_github_url(pair_url[p])
              result == Manifest(pair_lists[p], parsed_p.owner, parsed_p.repo,
                                 pair_branch[p], parsed_p.path)
          IN  /\ pair_cache' = CacheSet(pair_cache, KeyOf(p), result)
              /\ pair_ret' = [pair_ret EXCEPT ![p] = result]
       /\ pair_pc' = [pair_pc EXCEPT ![p] = "done"]
       /\ UNCHANGED <<pairInputs, pair_branch, pair_lists, pair_error, notCrawlPair>>

NextCrawlPair ==
    \/ PairParse
    \/ PairGetDefaultBranch
    \/ PairCacheHit
    \/ PairCacheMiss
    \/ PairFetchTreeFails
    \/ PairFetchTree
    \/ PairBuildAndStore

SpecCrawlPair == InitCrawlPair /\ [][NextCrawlPair]_vars

---------------------------------------------------------------------------
(* Claims.  C1, C2, C3, C6, C7, C10, C12, C13, C20, C22, C28 and C30 are   *)
(* about one acquisition and are checked under Spec; C4, C5, C8, C9, C25   *)
(* and C26 are about download_with_retry (SpecRetry); C11 and C29 about    *)
(* fix_tracker_files (SpecFix); C14 and C15 about download_file            *)
(* (SpecDownload); C16 and C27 about sanitize_filename (SpecSanitize);     *)
(* C17, C18 and C19 about crawl_github_repository (SpecCrawl); C21 and     *)
(* C23 about cleanup_tracker_files and destroy (SpecCleanup); C24 about    *)
(* two crawls at once (SpecCrawlPair).                                     *)

\* the all-failed result: the orchestrator has returned, every entry of
\* tracker_files is in 'failed' with one shared text, nothing is in
\* 'successful', total_bytes is 0, every row is saved 'failed' and
\* download_files_batch was not called
AllFailed ==
    /\ pc = "done"
    /\ ret.kind = "returned"
    /\ ret.successful = << >>
    /\ ret.total_bytes = 0
    /\ Len(ret.failed) = N
    /\ \A i \in 1..N : /\ ret.failed[i].file_id = tracker_files[i].id
                       /\ ret.failed[i].error = ret.failed[1].error
    /\ \A id \in RowIds : download_status[id] = "failed"
    /\ ~batch_invoked

\* C1: whenever the preflight reports insufficient space, by raising
\* InsufficientStorageError or by returning sufficient = False (the case
\* where only the MIN_FREE_SPACE floor is violated included), the orchestrator
\* returns the all-failed result and download_files_batch is never called.
CexC1_InsufficientSpaceFailsAll ==
    (\/ space_check.kind = "raised"
     \/ space_check.kind = "returned" /\ ~space_check.result.sufficient)
        => AllFailed

\* the ids a list of result entries names under key
IdsIn(list, key) == {list[j][key] : j \in 1..Len(list)}

\* how many entries of list are the descriptor d
TimesIn(list, d) ==
    Cardinality({j \in 1..Len(list) :
                    /\ list[j].name = d.name
                    /\ list[j].url = d.url
                    /\ list[j].destination = d.destination
                    /\ list[j].tracker_file_id = d.tracker_file_id})

\* C2: when download_files_batch has gone through its list, every input
\* descriptor is in exactly one of 'successful' and 'failed', so the two
\* lengths add up to N; and in the result the orchestrator folds from it every
\* tracker file of the batch is in exactly one of the two lists, never in
\* both and never in neither.
CexC2_EachDescriptorInExactlyOneList ==
    /\ (pc \in {"batch", "done"} /\ batch_invoked /\ index = Len(file_list)) =>
          /\ Len(results.successful) + Len(results.failed) = N
          /\ \A i \in 1..N :
                TimesIn(results.successful, file_list[i])
                    + TimesIn(results.failed, file_list[i])
                  = Cardinality({h \in 1..N : file_list[h] = file_list[i]})
    /\ (pc = "done" /\ batch_invoked) =>
          /\ Len(ret.successful) + Len(ret.failed) = N
          /\ \A id \in RowIds :
                (id \in IdsIn(ret.successful, "file_id"))
                    # (id \in IdsIn(ret.failed, "file_id"))

\* transfers among the first j of the batch that succeeded
OkUpTo(j) == Cardinality({i \in 1..j : xfer[i].ok})

\* C3: in download_files_batch every descriptor is attempted, whatever
\* happened to the others, and is recorded by its own transfer alone: in
\* 'successful' exactly when its own download_with_retry returned, otherwise
\* in 'failed' with the exception its own download_with_retry raised.
ThmC3_FailuresAreIsolated ==
    /\ Len(xfer) = index
    /\ (pc = "done" /\ batch_invoked) => index = N
    /\ Len(results.successful) = OkUpTo(index)
    /\ Len(results.failed) = index - OkUpTo(index)
    /\ \A j \in 1..Len(xfer) :
          /\ xfer[j].calls >= 1
          /\ IF xfer[j].ok
             THEN LET e == results.successful[OkUpTo(j)]
                  IN  /\ e.tracker_file_id = file_list[j].tracker_file_id
                      /\ e.url = file_list[j].url
                      /\ e.bytes_downloaded = xfer[j].bytes
             ELSE LET e == results.failed[j - OkUpTo(j)]
                  IN  /\ e.tracker_file_id = file_list[j].tracker_file_id
                      /\ e.url = file_list[j].url
                      /\ e.error_type = xfer[j].exc

\* three descriptors, the host of the second not allow-listed, the other two
\* transferred: one failure, the second, and two successes
WitC3_SecondHostRejected ==
    /\ pc = "done"
    /\ N = 3
    /\ Len(xfer) = 3
    /\ xfer[1].ok /\ xfer[3].ok
    /\ xfer[2].exc = "ValueError"
    /\ Len(results.failed) = 1
    /\ results.failed[1].tracker_file_id = 2
    /\ Len(results.successful) = 2
    /\ Len(ret.failed) = 1 /\ Len(ret.successful) = 2

\* the retry limit as the caller sees it: the argument if given and not 0,
\* else the configured MAX_RETRIES
RetryLimit ==
    IF max_retries_arg # << >> /\ max_retries_arg[1] # 0
    THEN max_retries_arg[1] ELSE cfg_max_retries

\* C4: the number of download_file attempts of one download_with_retry call
\* never exceeds the effective retry limit, whatever the attempts do and
\* however max_retries is given.
ThmC4_AttemptsBounded == rs.calls <= RetryLimit

WitC4_ExplicitLimitReached ==
    /\ max_retries_arg = <<3>>
    /\ cfg_max_retries = 1
    /\ rs.state = "raised"
    /\ rs.calls = 3

\* C5: a URL whose host is not allow-listed fails with ValueError on its first
\* attempt, with no HTTP request, no directory or file made at the
\* destination, and no retry.
ThmC5_NoRequestOffAllowList ==
    Netloc(url) \notin allowed_domains =>
        /\ rs.http_calls = 0
        /\ ~rs.mkdirs
        /\ rs.file = NoFile
        /\ rs.calls <= 1
        /\ rs.calls = 1 => rs.state = "raised" /\ rs.exc = "ValueError"

WitC5_RewrittenHostRejected ==
    /\ Netloc(url) = "gist.raw.githubusercontent.com"
    /\ rs.calls = 1
    /\ rs.state = "raised"
    /\ rs.exc = "ValueError"

\* bytes of the transfers that succeeded, failed ones counting 0
BytesOf(j) == IF xfer[j].ok THEN xfer[j].bytes ELSE 0

\* C6: total_bytes is the sum of bytes_downloaded over the descriptors
\* reported successful, failed ones adding nothing: in the results of
\* download_files_batch, in the dict the orchestrator returns, and, for a
\* tracker being created, in its total_storage_used.
ThmC6_TotalBytesIsSumOfSuccessful ==
    /\ results.total_bytes = SumSeq([j \in 1..Len(xfer) |-> BytesOf(j)])
    /\ results.total_bytes
         = SumSeq([j \in 1..Len(results.successful) |->
                      results.successful[j].bytes_downloaded])
    /\ pc = "done" =>
          /\ ret.total_bytes
               = SumSeq([j \in 1..Len(ret.successful) |->
                            ret.successful[j].bytes_downloaded])
          /\ ret.total_bytes = results.total_bytes
          /\ variant \in {"create", "manual"} /\ batch_invoked =>
                tracker.total_storage_used = ret.total_bytes

WitC6_TwoSuccessesOneFailure ==
    /\ pc = "done"
    /\ variant = "create"
    /\ Len(ret.successful) = 2
    /\ Len(ret.failed) = 1
    /\ ret.total_bytes = 103
    /\ tracker.total_storage_used = 103

\* C7: check_available_space raises InsufficientStorageError whenever the
\* free space is below the required bytes with their 10% buffer or the space
\* left after the download is below MIN_FREE_SPACE, and returns, with
\* sufficient = True, only when neither is the case.
CexC7_BothConditionsRaise ==
    space_check.kind # "none" =>
        LET short == \/ available < RequiredWithBuffer(total_size)
                     \/ available - RequiredWithBuffer(total_size) < MIN_FREE_SPACE
        IN  /\ (space_check.kind = "raised") <=> short
            /\ space_check.kind = "returned" => space_check.result.sufficient

\* C8: an attempt that fails with FileTooLargeError or an HTTP 404 response
\* is the last one: the call has raised, and no backoff sleep followed it.
ThmC8_NoRetryOn404OrTooLarge ==
    \A i \in 1..Len(rs.causes) :
        rs.causes[i] \in {"too_large", "404"} =>
            /\ i = Len(rs.causes)
            /\ rs.state = "raised"
            /\ Len(rs.sleeps) = i - 1

WitC8_404AfterTimeout ==
    /\ rs.causes = <<"timeout", "404">>
    /\ rs.state = "raised"
    /\ rs.max_retries = 3

\* causes that C9 says are retried until the budget is spent
Retriable ==
    {"timeout", "connection_error", "403", "500", "incomplete", "write_error",
     "stream_broken"}

\* C9: when every attempt fails with a timeout or a network/transfer error
\* other than a 404 response or FileTooLargeError, whatever the text of the
\* error or of the URL, download_with_retry has made exactly max_retries
\* attempts when it raises a DownloadError, never fewer.
CexC9_RetriableErrorsExhaustBudget ==
    (rs.state = "raised" /\ \A i \in 1..Len(rs.causes) : rs.causes[i] \in Retriable) =>
        /\ rs.calls = rs.max_retries
        /\ rs.exc = "DownloadError"

\* a storage directory could not be made: the base path in the preflight,
\* the tracker's directory, or the category directory of a descriptor
StorageDirFails == PreflightBaseFails \/ AllocateRootFails \/ PlanFileFails

\* C10: whenever a storage directory cannot be made during an acquisition,
\* no exception leaves the orchestrator: it returns the all-failed result,
\* with one shared storage error text, and no transfer is attempted.
CexC10_StorageFailuresNeverEscape == [][StorageDirFails => AllFailed']_vars

\* rows of the run in progress that have a source URL and an empty local
\* path, with and without a file at the expected place
WithFile == {i \in Broken(fix_before) : disk_files[RelativePath(fix_before[i])] # NoFile}
WithoutFile == Broken(fix_before) \ WithFile

\* C11: a run of fix_tracker_files without --dry-run goes through exactly the
\* rows with a source URL and an empty local path; a row with a file at
\* trackers/<id>/files/<sanitized category>/<sanitized filename> gets that
\* path as local_file, the file's size as actual_file_size and status
\* 'completed', and counts as fixed; a row without one is left as it was and
\* counts as missing; fixed + missing is the number of such rows.
ThmC11_FixLinksExactlyTheFilesOnDisk ==
    fix_pc \in {"loop", "done"} =>
        /\ {broken_files[k] : k \in 1..Len(broken_files)} = Broken(fix_before)
        /\ Len(broken_files) = Cardinality(Broken(fix_before))
        /\ fixed_count = Cardinality({k \in 1..fix_i : broken_files[k] \in WithFile})
        /\ missing_count = Cardinality({k \in 1..fix_i : broken_files[k] \in WithoutFile})
        /\ fix_pc = "done" =>
              /\ fixed_count = Cardinality(WithFile)
              /\ missing_count = Cardinality(WithoutFile)
              /\ fixed_count + missing_count = Cardinality(Broken(fix_before))
        /\ ~dry_run =>
              \A k \in 1..fix_i :
                 LET id == broken_files[k]
                     path == RelativePath(fix_before[id])
                 IN  IF id \in WithFile
                     THEN /\ fix_records[id].local_file = path
                          /\ fix_records[id].actual_file_size = disk_files[path]
                          /\ fix_records[id].download_status = "completed"
                     ELSE fix_records[id] = fix_before[id]

WitC11_OneFixedOneMissing ==
    /\ fix_pc = "done"
    /\ ~dry_run
    /\ fixed_count = 1
    /\ missing_count = 1
    /\ \E i \in 1..Len(fix_records) :
          /\ fix_before[i].download_status = "failed"
          /\ fix_records[i].download_status = "completed"
          /\ fix_records[i].actual_file_size = 7

\* C12: after an acquisition, the local_file saved on every row the batch
\* reported successful names, under the media root, the destination the
\* batch wrote that row's file to.  Paths of the model are taken from the
\* media root, so "resolved against the media root" is equality of paths.
CexC12_LocalFileIsTheWrittenDestination ==
    (pc = "done" /\ ret.kind = "returned") =>
        \A j \in 1..Len(results.successful) :
            local_file[results.successful[j].tracker_file_id]
                = results.successful[j].destination

\* C13: once an acquisition has returned, tracker.files_downloaded is not
\* true while a row of the acquisition is saved with download_status
\* 'failed', whatever the tracker's storage_type was when it started.
CexC13_NotDownloadedWhileARowFailed ==
    (pc = "done" /\ tracker.files_downloaded) =>
        \A id \in RowIds : download_status[id] # "failed"

\* the last download_file call got a 200 response within the cap and its
\* stream ended without an error: a file of dl_env.body KiB was written
Written ==
    /\ dl_calls > 0
    /\ validate_url(dl_url) = << >>
    /\ dl_env.mkdir /\ dl_env.net = "response" /\ dl_env.status = "200"
    /\ dl_env.content_length <= MAX_FILE_SIZE
    /\ dl_env.stream = "ok"

Deviation == Abs(dl_env.body - dl_env.content_length)

CexC15_NeverWritesBeyondTheCap ==
    dl_calls > 0 => dl_file <= MAX_FILE_SIZE

\* C16: whatever string it is given, sanitize_filename returns a non-empty
\* name with none of the characters < > : " / \ | ? * in it, which is not
\* "." and not "..": a single path component that stays in its directory.
ThmC16_SanitizedNameIsOneComponent ==
    san_called =>
        /\ san_out # << >>
        /\ \A i \in 1..Len(san_out) : san_out[i] \notin invalid_chars
        /\ san_out # <<".">>
        /\ san_out # <<".", ".">>

\* "../" comes back as "_"
WitC16_ParentSegmentNeutralised ==
    /\ san_called
    /\ san_filename = <<".", ".", "/">>
    /\ san_max_length = DefaultMaxLength
    /\ san_out = <<"_">>

\* sub can be had from full by leaving entries out
RECURSIVE IsSubsequence(_, _)
IsSubsequence(sub, full) ==
    IF sub = << >> THEN TRUE
    ELSE IF full = << >> THEN FALSE
    ELSE IF Head(sub) = Head(full) THEN IsSubsequence(Tail(sub), Tail(full))
    ELSE IsSubsequence(sub, Tail(full))

\* a batch entry as the descriptor it came from
AsDescriptor(e) ==
    [url |-> e.url, destination |-> e.destination, name |-> e.name,
     tracker_file_id |-> e.tracker_file_id]

Descriptors(entries) == [j \in 1..Len(entries) |-> AsDescriptor(entries[j])]

\* an entry of the orchestrator's result, and a descriptor, as (row, filename)
RowsOf(entries) ==
    [j \in 1..Len(entries) |-> <<entries[j].file_id, entries[j].filename>>]

RowsPlanned ==
    [j \in 1..Len(file_list) |-> <<file_list[j].tracker_file_id, file_list[j].name>>]

\* C20: the batch has dealt with exactly the first 'index' descriptors, one
\* per step; its 'successful' and 'failed' lists are subsequences of the
\* descriptors dealt with, and so are the two lists the orchestrator returns.
ThmC20_OutcomesKeepInputOrder ==
    /\ pc = "batch" =>
          /\ Len(xfer) = index
          /\ Len(results.successful) + Len(results.failed) = index
          /\ IsSubsequence(Descriptors(results.successful), SubSeq(file_list, 1, index))
          /\ IsSubsequence(Descriptors(results.failed), SubSeq(file_list, 1, index))
    /\ (pc = "done" /\ batch_invoked) =>
          /\ IsSubsequence(Descriptors(results.successful), file_list)
          /\ IsSubsequence(Descriptors(results.failed), file_list)
          /\ IsSubsequence(RowsOf(ret.successful), RowsPlanned)
          /\ IsSubsequence(RowsOf(ret.failed), RowsPlanned)

\* three descriptors: the first and third succeeded, the second failed
WitC20_SuccessFailureSuccess ==
    /\ pc = "done" /\ batch_invoked
    /\ Len(file_list) = 3
    /\ xfer[1].ok /\ ~xfer[2].ok /\ xfer[3].ok
    /\ Len(ret.successful) = 2 /\ Len(ret.failed) = 1
    /\ ret.successful[1].file_id = file_list[1].tracker_file_id
    /\ ret.successful[2].file_id = file_list[3].tracker_file_id

\* the call has ended, by return or by exception
CrawlEnded == crawl_pc \in {"done", "raised"}

UnderDirectory(path, dir) ==
    \/ StripSlash(dir) = << >>
    \/ StartsWith(path, StripSlash(dir) \o <<"/">>)

\* the entries of upstream that are blobs under the URL's sub-path with an
\* allow-listed extension
PrintableUnderPath ==
    {i \in 1..Len(upstream) :
        /\ upstream[i].type = "blob"
        /\ UnderDirectory(upstream[i].path, parsed.path)
        /\ FileExt(upstream[i].path) \in PRINTABLE_EXTENSIONS}

\* the repository paths a manifest's file_tree lists
ListedPaths(manifest) ==
    UNION {{manifest.file_tree[d].files[f].github_url[5] :
               f \in 1..Len(manifest.file_tree[d].files)} :
           d \in 1..Len(manifest.file_tree)}

FreshManifest == crawl_pc = "done" /\ ~crawl_ret.cached

\* C18: the manifest of a crawl counts in stats.total_files, and lists,
\* exactly the blobs of the tree that lie under the URL's directory and
\* have an allow-listed extension.
CexC18_CountsOnlyBlobsUnderThePath ==
    FreshManifest =>
        /\ crawl_ret.stats.total_files = Cardinality(PrintableUnderPath)
        /\ ListedPaths(crawl_ret) = {upstream[i].path : i \in PrintableUnderPath}

\* the blobs filter_printable_files is to sort into tiers: allow-listed
\* extension, and past the function's own base path test
AllowListed ==
    {i \in 1..Len(upstream) :
        /\ upstream[i].type = "blob"
        /\ FileExt(upstream[i].path) \in PRINTABLE_EXTENSIONS
        /\ (parsed.path = << >>
            \/ StartsWith(upstream[i].path, StripSlash(parsed.path)))}

InList(list, file) == \E j \in 1..Len(list) : list[j] = file

CexC22_OversizeBatchIsAborted ==
    total_size > MAX_TOTAL_SIZE =>
        /\ ~batch_invoked
        /\ pc = "done" => AllFailed

LastOp == st_ops[Len(st_ops)]

\* the files and directory of every tracker but tracker_id are as they were
\* before the last operation
OthersUntouched(tracker_id) ==
    /\ \A p \in DOMAIN st_before.disk \cup DOMAIN st_disk :
          p[1] # ToString(tracker_id) =>
             /\ p \in DOMAIN st_before.disk
             /\ p \in DOMAIN st_disk
             /\ st_disk[p] = st_before.disk[p]
    /\ st_dirs \ {ToString(tracker_id)} = st_before.there \ {ToString(tracker_id)}

\* C21: a cleanup_tracker_files(b) call leaves every other tracker's files
\* and directory as they were; when b's directory is absent it returns
\* success with 0 files and 0 bytes and changes nothing; when it returns
\* success on a directory that was there, the directory and every file under
\* it are gone and the result counts those files and sums their sizes.
ThmC21_CleanupRemovesOnlyItsTree ==
    (st_ops # << >> /\ LastOp.kind = "cleanup") =>
        /\ OthersUntouched(LastOp.id)
        /\ ToString(LastOp.id) \notin st_before.there =>
              /\ LastOp.ret = [success |-> TRUE, deleted_bytes |-> 0, deleted_files |-> 0]
              /\ st_disk = st_before.disk
              /\ st_dirs = st_before.there
        /\ (ToString(LastOp.id) \in st_before.there /\ LastOp.ret.success) =>
              /\ ToString(LastOp.id) \notin st_dirs
              /\ \A p \in DOMAIN st_disk : p[1] # ToString(LastOp.id)
              /\ LastOp.ret.deleted_files =
                    Cardinality({p \in DOMAIN st_before.disk : p[1] = ToString(LastOp.id)})
              /\ LastOp.ret.deleted_bytes =
                    SumSizes(st_before.disk,
                             {p \in DOMAIN st_before.disk : p[1] = ToString(LastOp.id)})

\* a second cleanup of tracker 1 finds nothing, after a first one removed its
\* two files (8 bytes) while tracker 2 keeps a file
WitC21_SecondCleanupIsNoop ==
    /\ Len(st_ops) = 2
    /\ st_ops[1] = [kind |-> "cleanup", id |-> 1, storage_type |-> "",
                    ret |-> [success |-> TRUE, deleted_bytes |-> 8, deleted_files |-> 2]]
    /\ st_ops[2] = [kind |-> "cleanup", id |-> 1, storage_type |-> "",
                    ret |-> [success |-> TRUE, deleted_bytes |-> 0, deleted_files |-> 0]]
    /\ <<"2", "files", "B", "a.stl">> \in DOMAIN st_disk

\* C23: after a tracker is deleted, its directory is as it was when
\* CLEANUP_ON_DELETE is off, and holds no file when CLEANUP_ON_DELETE is on.
CexC23_DeletePurgesIffCleanupOnDelete ==
    (st_ops # << >> /\ LastOp.kind = "destroy") =>
        IF cleanup_on_delete
        THEN \A p \in DOMAIN st_disk : p[1] # ToString(LastOp.id)
        ELSE /\ st_disk = st_before.disk
             /\ st_dirs = st_before.there

\* C21 as stated: every cleanup_tracker_files(b) call leaves no file and no
\* directory of b, and reports the files and bytes b's directory held.
CexC21_CleanupAlwaysRemovesTree ==
    (st_ops # << >> /\ LastOp.kind = "cleanup") =>
        /\ ToString(LastOp.id) \notin st_dirs
        /\ \A p \in DOMAIN st_disk : p[1] # ToString(LastOp.id)
        /\ LastOp.ret.deleted_files =
              Cardinality({p \in DOMAIN st_before.disk : p[1] = ToString(LastOp.id)})

\* C25 as stated: the sleep before attempt n (n >= 1) is RETRY_DELAY^n.
CexC25_DelayBeforeAttemptIsPowerOfItsNumber ==
    \A n \in 1..Len(rs.sleeps) : rs.sleeps[n] = Pow(RETRY_DELAY, n)

\* C25: attempts numbered from 0, attempt n runs with timeout
\* DOWNLOAD_TIMEOUT * (n + 1); one sleep precedes each attempt n >= 1, of
\* RETRY_DELAY^(n - 1) seconds; none precedes attempt 0, none follows the
\* attempt the call ends with.
ThmC25_BackoffSchedule ==
    /\ Len(rs.timeouts) = rs.calls
    /\ \A n \in 0..(rs.calls - 1) : rs.timeouts[n + 1] = DOWNLOAD_TIMEOUT * (n + 1)
    /\ \A n \in 1..Len(rs.sleeps) : rs.sleeps[n] = Pow(RETRY_DELAY, n - 1)
    /\ Len(rs.sleeps) = IF rs.state = "running" \/ rs.calls = 0 THEN rs.calls
                        ELSE rs.calls - 1

\* three attempts, all failed: sleeps of 1 s and 2 s, timeouts 600, 1200, 1800
WitC25_ThreeAttemptsTwoSleeps ==
    /\ rs.state = "raised"
    /\ rs.max_retries = 3
    /\ rs.sleeps = <<1, 2>>
    /\ rs.timeouts = <<600, 1200, 1800>>

\* C26: when attempt n >= 1 is about to start, and when download_with_retry
\* has raised, there is no file at the destination.
CexC26_NoPartialFileAtRetryOrRaise ==
    (\/ rs.state = "running" /\ rs.attempt >= 1
     \/ rs.state = "raised") => rs.file = NoFile

\* the name after the replacements and the strip, before any truncation
Cleaned(filename) ==
    Strip([i \in 1..Len(filename) |->
              IF filename[i] \in invalid_chars THEN "_" ELSE filename[i]])

EndsWith(s, suffix) ==
    /\ Len(suffix) <= Len(s)
    /\ SubSeq(s, Len(s) - Len(suffix) + 1, Len(s)) = suffix

\* C27: for max_length >= 1 the result of sanitize_filename is at most
\* max_length long, and when the cleaned name was longer than max_length the
\* result ends with its extension.
CexC27_ResultFitsMaxLength ==
    (san_called /\ san_max_length >= 1) =>
        /\ Len(san_out) <= san_max_length
        /\ Len(Cleaned(san_filename)) > san_max_length =>
              EndsWith(san_out, SplitExt(Cleaned(san_filename)).ext)

\* C28: once an acquisition has ended, by a return or by an exception, every
\* record of the batch is 'completed' or 'failed'.
CexC28_NoRowLeftDownloadingOrPending ==
    pc \in {"done", "raised"} =>
        \A id \in RowIds : download_status[id] \in {"completed", "failed"}

\* C29: a --dry-run run changes no record; when a run without --dry-run is
\* over, no row with a source URL and an empty local path has its file on
\* disk; a run that starts with no such row repairs nothing and changes no
\* record (so a second run in a row leaves everything as the first did); and
\* no run changes a row that has a local path, or one whose file is absent.
ThmC29_DryRunInertAndRerunIdle ==
    fix_pc \in {"loop", "done"} =>
        /\ dry_run => fix_records = fix_before
        /\ (fix_pc = "done" /\ ~dry_run) =>
              \A i \in Broken(fix_records) : ~Exists(RelativePath(fix_records[i]))
        /\ (\A i \in Broken(fix_before) : ~Exists(RelativePath(fix_before[i]))) =>
              /\ fixed_count = 0
              /\ fix_records = fix_before
        /\ \A i \in 1..Len(fix_before) :
              (\/ fix_before[i].local_file # << >>
               \/ ~Exists(RelativePath(fix_before[i]))) =>
                  fix_records[i] = fix_before[i]

\* the second run in a row, without --dry-run, is over: it repaired nothing
\* and counted one row as missing, after the first run had linked a row to
\* its 7-byte file
WitC29_SecondRunRepairsNothing ==
    /\ runs = 2
    /\ fix_pc = "done"
    /\ ~dry_run
    /\ fixed_count = 0
    /\ missing_count = 1
    /\ fix_records = fix_before
    /\ \E i \in 1..Len(fix_records) :
          /\ fix_records[i].actual_file_size = 7
          /\ fix_records[i].local_file = RelativePath(fix_records[i])

\* C30: in one acquisition, two descriptors of different rows are never
\* planned to the same destination, and two rows never get the same
\* local_file.
CexC30_DistinctRowsDistinctPaths ==
    /\ \A i, j \in 1..Len(file_list) :
          file_list[i].tracker_file_id # file_list[j].tracker_file_id =>
             file_list[i].destination # file_list[j].destination
    /\ \A a, b \in RowIds :
          (a # b /\ local_file[a] # << >>) => local_file[a] # local_file[b]

\* what the two calls work on, its cache key, and the manifest one crawl of
\* the tree builds and stores
PairTarget == TargetOf(pair_url[1])
PairSingle == CrawlResult(pair_upstream, PairTarget)
PairStored == [k \in {PairKey(PairTarget)} |-> PairSingle]

\* C24: two calls for one (owner, repo, branch, path) on one tree, in any
\* interleaving.  The cache holds what it held at the start or the manifest
\* one crawl stores, never anything else; with the starting entry, if any,
\* built from the same tree: each call that returns, returns that manifest,
\* up to the cached flag, and once a call has returned the cache holds it.
ThmC24_ConcurrentCrawlsAgree ==
    /\ pair_cache \in {pair_cache0, PairStored}
    /\ pair_cache0 \in {<< >>, PairStored} =>
          /\ \A p \in Procs :
                pair_pc[p] = "done" => [pair_ret[p] EXCEPT !.cached = FALSE] = PairSingle
          /\ \A p, q \in Procs :
                (pair_pc[p] = "done" /\ pair_pc[q] = "done") =>
                   [pair_ret[p] EXCEPT !.cached = FALSE]
                      = [pair_ret[q] EXCEPT !.cached = FALSE]
          /\ (\E p \in Procs : pair_pc[p] = "done") => pair_cache = PairStored

\* both calls found the cache empty, fetched, and stored: neither was forced
\* and neither result is marked cached
WitC24_BothMissBothStore ==
    /\ pair_cache0 = << >>
    /\ \A p \in Procs :
          /\ ~pair_force[p]
          /\ pair_pc[p] = "done"
          /\ ~pair_ret[p].cached
    /\ pair_url[1] # pair_url[2]
    /\ pair_cache = PairStored

=============================================================================
